---------------------------- MODULE Spec2Model ----------------------------
(***************************************************************************)
(* Financial impact pipeline of cyberimpact_backend                        *)
(* (services/financial): extraction of tool findings, severity sort,       *)
(* three-tier asset matching (path rules, keywords, AI fallback), risk     *)
(* tickets and summary, with the process-wide reloadable rule set.         *)
(*                                                                         *)
(* Conventions.  A Python str is a sequence of one-character strings, so   *)
(* that lower(), "in" (substring) and replace() are computed, not assumed. *)
(* JSON null / Python None in a text field is the one-element sequence     *)
(* Null.  Money is in whole dollars; a percentage is kept in hundredths    *)
(* of a percent (the code rounds both to 2 decimals).                      *)
(***************************************************************************)
EXTENDS Integers, Sequences, FiniteSets, TLC

-----------------------------------------------------------------------------
(* Python str operations                                                   *)

UpperAlpha == <<"A","B","C","D","E","F","G","H","I","J","K","L","M",
                "N","O","P","Q","R","S","T","U","V","W","X","Y","Z">>

LowerAlpha == <<"a","b","c","d","e","f","g","h","i","j","k","l","m",
                "n","o","p","q","r","s","t","u","v","w","x","y","z">>

Digits == <<"0","1","2","3","4","5","6","7","8","9">>

\* None (JSON null) where a str is expected
Null == <<"<None>">>

\* str(x): a str is itself, None becomes the text "None"
Str(x) == IF x = Null THEN <<"N","o","n","e">> ELSE x

LowerChar(c) ==
    IF \E i \in 1..26 : UpperAlpha[i] = c
    THEN LowerAlpha[CHOOSE i \in 1..26 : UpperAlpha[i] = c]
    ELSE c

UpperChar(c) ==
    IF \E i \in 1..26 : LowerAlpha[i] = c
    THEN UpperAlpha[CHOOSE i \in 1..26 : LowerAlpha[i] = c]
    ELSE c

\* s.lower(), s.upper()
Lower(s) == [i \in 1..Len(s) |-> LowerChar(s[i])]

Upper(s) == [i \in 1..Len(s) |-> UpperChar(s[i])]

\* sub in s
Contains(sub, s) ==
    \E i \in 0..(Len(s) - Len(sub)) : SubSeq(s, i + 1, i + Len(sub)) = sub

\* s.strip()
RECURSIVE LStrip(_)
LStrip(s) == IF s # <<>> /\ Head(s) = " " THEN LStrip(Tail(s)) ELSE s

RECURSIVE RStrip(_)
RStrip(s) ==
    IF s # <<>> /\ s[Len(s)] = " " THEN RStrip(SubSeq(s, 1, Len(s) - 1)) ELSE s

Strip(s) == RStrip(LStrip(s))

\* s.replace(old, ""), leftmost non-overlapping occurrences, old non-empty
RECURSIVE Remove(_, _)
Remove(s, old) ==
    IF Len(s) < Len(old) THEN s
    ELSE IF SubSeq(s, 1, Len(old)) = old
         THEN Remove(SubSeq(s, Len(old) + 1, Len(s)), old)
         ELSE <<Head(s)>> \o Remove(Tail(s), old)

\* " ".join(parts)
RECURSIVE Join(_)
Join(parts) ==
    IF parts = <<>> THEN <<>>
    ELSE IF Len(parts) = 1 THEN parts[1]
    ELSE parts[1] \o <<" ">> \o Join(Tail(parts))

IsDigit(c) == \E i \in 1..10 : Digits[i] = c

DigitVal(c) == (CHOOSE i \in 1..10 : Digits[i] = c) - 1

RECURSIVE DigitsVal(_)
DigitsVal(s) ==
    IF s = <<>> THEN 0 ELSE 10 * DigitsVal(SubSeq(s, 1, Len(s) - 1)) + DigitVal(s[Len(s)])

\* float(s) on the cell texts of the inventories below: a non-empty run of
\* digits parses to its value (ok), anything else raises ValueError (~ok)
ParseFloat(s) ==
    IF s # <<>> /\ \A i \in 1..Len(s) : IsDigit(s[i])
    THEN [ok |-> TRUE, val |-> DigitsVal(s)]
    ELSE [ok |-> FALSE, val |-> 0]

\* d.get(k, default) for a dict modelled as a function
Get(d, k, default) == IF k \in DOMAIN d THEN d[k] ELSE default

\* floor(a * m / d) without leaving 32 bits in the intermediate product
MulDiv(a, m, d) == (a \div d) * m + ((a % d) * m) \div d

\* round(a * m / d) to the nearest unit, ties to even (Python's round), d > 0
MulDivRound(a, m, d) ==
    IF 2 * (((a % d) * m) % d) > d THEN MulDiv(a, m, d) + 1
    ELSE IF 2 * (((a % d) * m) % d) < d THEN MulDiv(a, m, d)
    ELSE MulDiv(a, m, d) + (MulDiv(a, m, d) % 2)

-----------------------------------------------------------------------------
(* financial_impact_service.py                                             *)

W_CRITICAL == <<"C","R","I","T","I","C","A","L">>

W_HIGH == <<"H","I","G","H">>

W_MEDIUM == <<"M","E","D","I","U","M">>

W_MODERATE == <<"M","O","D","E","R","A","T","E">>

W_LOW == <<"L","O","W">>

W_WARNING == <<"W","A","R","N","I","N","G">>

W_INFO == <<"I","N","F","O">>

W_UNKNOWN == <<"U","N","K","N","O","W","N">>

\* class SeverityLevel
CRITICAL == 10

HIGH == 7

MEDIUM == 4

LOW == 2

INFO == 1

UNKNOWN == 0

\* faulty variant: HIGH is looked for before CRITICAL
get_severity_weight_HighFirst(severity) ==
    IF Contains(W_HIGH, Strip(Upper(severity))) THEN HIGH
    ELSE IF Contains(W_CRITICAL, Strip(Upper(severity))) THEN CRITICAL
    ELSE IF Contains(W_MEDIUM, Strip(Upper(severity)))
            \/ Contains(W_MODERATE, Strip(Upper(severity))) THEN MEDIUM
    ELSE IF Contains(W_LOW, Strip(Upper(severity)))
            \/ Contains(W_WARNING, Strip(Upper(severity))) THEN LOW
    ELSE IF Contains(W_INFO, Strip(Upper(severity))) THEN INFO
    ELSE UNKNOWN

get_severity_weight(severity) ==
    LET severity_normalized == Strip(Upper(severity))
    IN  IF Contains(W_CRITICAL, severity_normalized) THEN CRITICAL
        ELSE IF Contains(W_HIGH, severity_normalized) THEN HIGH
        ELSE IF Contains(W_MEDIUM, severity_normalized)
                \/ Contains(W_MODERATE, severity_normalized) THEN MEDIUM
        ELSE IF Contains(W_LOW, severity_normalized)
                \/ Contains(W_WARNING, severity_normalized) THEN LOW
        ELSE IF Contains(W_INFO, severity_normalized) THEN INFO
        ELSE UNKNOWN

calculate_direct_loss(hourly_cost, rto_hours) == hourly_cost * rto_hours

\* secondary_loss default of calculate_total_impact
SecondaryLoss == 1000000

\* faulty variant: the direct loss is taken for 5% of the downtime total
calculate_total_impact_FivePercent(direct_loss, has_pii_breach) ==
    [direct_loss |-> direct_loss,
     indirect_loss |-> MulDiv(direct_loss, 100, 5) - direct_loss,
     breach_penalty |-> IF has_pii_breach THEN SecondaryLoss ELSE 0,
     total_impact |-> MulDiv(direct_loss, 100, 5) + (IF has_pii_breach THEN SecondaryLoss ELSE 0)]

\* direct_loss / 0.04 in whole dollars: 0.04 = 4/100
calculate_total_impact(direct_loss, has_pii_breach) ==
    LET total_from_downtime == MulDiv(direct_loss, 100, 4)
        indirect_loss == total_from_downtime - direct_loss
        breach_penalty == IF has_pii_breach THEN SecondaryLoss ELSE 0
    IN  [direct_loss |-> direct_loss,
         indirect_loss |-> indirect_loss,
         breach_penalty |-> breach_penalty,
         total_impact |-> direct_loss + indirect_loss + breach_penalty]

\* recommendation thresholds of calculate_rosi, in percent
RosiCritical == 10000

RosiHigh == 1000

RosiRecommended == 100

\* faulty variant: the thresholds are not strict
RosiAbove_NotStrict(net_benefit, fix_cost, threshold) ==
    fix_cost > 0 /\ net_benefit >= (threshold * fix_cost) \div 100

\* rosi_percentage > threshold, on the exact quotient: for whole dollars
\* (net_benefit / fix_cost) * 100 > t is net_benefit > floor(t * fix_cost / 100)
RosiAbove(net_benefit, fix_cost, threshold) ==
    fix_cost > 0 /\ net_benefit > (threshold * fix_cost) \div 100

\* rosi_percentage_x100 is round(rosi_percentage, 2) * 100
calculate_rosi(total_risk, fix_cost) ==
    [fix_cost |-> fix_cost,
     risk_reduction |-> total_risk,
     net_benefit |-> total_risk - fix_cost,
     rosi_percentage_x100 |->
         IF fix_cost > 0 THEN MulDivRound(total_risk - fix_cost, 10000, fix_cost) ELSE 0,
     recommendation |->
         IF RosiAbove(total_risk - fix_cost, fix_cost, RosiCritical)
         THEN "CRITICAL INVESTMENT - Immediate action required"
         ELSE IF RosiAbove(total_risk - fix_cost, fix_cost, RosiHigh)
         THEN "HIGH PRIORITY - Strong financial justification"
         ELSE IF RosiAbove(total_risk - fix_cost, fix_cost, RosiRecommended)
         THEN "RECOMMENDED - Positive return on investment"
         ELSE IF RosiAbove(total_risk - fix_cost, fix_cost, 0)
         THEN "CONSIDER - Marginal positive return"
         ELSE "LOW PRIORITY - Cost exceeds immediate risk"]

\* base_rto of estimate_rto_from_severity, hours
BaseRtoCritical == 24

BaseRtoHigh == 72

BaseRtoMedium == 168

BaseRtoLow == 720

\* criticality_multiplier in quarters: 0.5, 0.75, 1.0, 1.5; default 1.0
CriticalityQuarters(asset_criticality) ==
    LET c == Lower(asset_criticality)
    IN  IF c = Lower(W_CRITICAL) THEN 2
        ELSE IF c = Lower(W_HIGH) THEN 3
        ELSE IF c = Lower(W_MEDIUM) THEN 4
        ELSE IF c = Lower(W_LOW) THEN 6
        ELSE 4

\* faulty variant: the severity weight must exceed the level, not reach it
estimate_rto_from_severity_Above(severity, asset_criticality) ==
    LET severity_weight == get_severity_weight(severity)
        rto == IF severity_weight > CRITICAL THEN BaseRtoCritical
               ELSE IF severity_weight > HIGH THEN BaseRtoHigh
               ELSE IF severity_weight > MEDIUM THEN BaseRtoMedium
               ELSE BaseRtoLow
    IN  (rto * CriticalityQuarters(asset_criticality)) \div 4

estimate_rto_from_severity(severity, asset_criticality) ==
    LET severity_weight == get_severity_weight(severity)
        rto == IF severity_weight >= CRITICAL THEN BaseRtoCritical
               ELSE IF severity_weight >= HIGH THEN BaseRtoHigh
               ELSE IF severity_weight >= MEDIUM THEN BaseRtoMedium
               ELSE BaseRtoLow
    IN  (rto * CriticalityQuarters(asset_criticality)) \div 4

-----------------------------------------------------------------------------
(* Rule configuration (config/asset_mapping_rules.json) and                *)
(* rule_based_mapper.py.  A JSON object is a record; an object whose key   *)
(* order matters (the path-rule tables, the keyword mappings) is a         *)
(* sequence of entries in file order.                                      *)

\* {} : the dict with no key
EmptyDict == <<>>

\* _get_default_rules
DefaultRules ==
    [type |-> "dict",
     path_rules |-> [rules |-> <<>>],
     keyword_rules |-> [rules |-> <<>>],
     tier_config |-> [use_hard_rules |-> TRUE,
                      use_keyword_matching |-> TRUE,
                      use_ai_fallback |-> TRUE]]

\* a rule file in the nested layout, all tiers on
RulesA ==
    [type |-> "dict",
     path_rules |-> [rules |-> <<
         [category |-> "CORE_BANKING", is_dict |-> TRUE,
          mappings |-> << [rule_path |-> <<"s","r","c">>, asset_id |-> <<"A","P","P","-","0","0","9">>],
                          [rule_path |-> <<"P","a","y">>, asset_id |-> <<"A","P","P","-","0","0","1">>] >>],
         [category |-> "description", is_dict |-> FALSE, mappings |-> <<>>],
         [category |-> "DATA", is_dict |-> TRUE,
          mappings |-> << [rule_path |-> <<"d","b","/">>, asset_id |-> <<"a","p","p","-","0","0","2">>] >>] >>],
     keyword_rules |-> [mappings |-> <<
         [asset_id |-> <<"A","P","P","-","0","0","2">>, is_list |-> TRUE, keywords |-> << <<"S","Q","L">>, <<"d","b">> >>],
         [asset_id |-> <<"A","P","P","-","0","0","1">>, is_list |-> TRUE, keywords |-> << <<"c","a","r","d">>, <<"s","q","l">> >>] >>],
     tier_config |-> [use_hard_rules |-> TRUE,
                      use_keyword_matching |-> TRUE,
                      use_ai_fallback |-> TRUE]]

\* a rule file with Tier 1 and the AI fallback switched off, other tables
RulesB ==
    [type |-> "dict",
     path_rules |-> [rules |-> <<
         [category |-> "LIBS", is_dict |-> TRUE,
          mappings |-> << [rule_path |-> <<"l","i","b">>, asset_id |-> <<"A","P","P","-","0","0","2">>] >>] >>],
     keyword_rules |-> [rules |-> <<
         [asset_id |-> <<"A","P","P","-","0","0","1">>, is_list |-> TRUE, keywords |-> << <<"x","s","s">> >>] >>],
     tier_config |-> [use_hard_path_rules |-> FALSE,
                      use_hard_rules |-> TRUE,
                      use_keyword_matching |-> TRUE,
                      use_ai_fallback |-> FALSE]]

\* a file holding valid JSON that is no object ("[]")
RulesNotAnObject == [type |-> "list"]

\* what the rule file can hold when it is opened
RuleFiles == {"missing", "invalid_json", "not_an_object", "rules_a", "rules_b"}

\* _load_rules: json.load of the file; FileNotFoundError and JSONDecodeError
\* are the two handled errors
_load_rules(file) ==
    CASE file = "missing" -> DefaultRules
      [] file = "invalid_json" -> DefaultRules
      [] file = "not_an_object" -> RulesNotAnObject
      [] file = "rules_a" -> RulesA
      [] file = "rules_b" -> RulesB

\* self.rules.get(...) raises AttributeError unless self.rules is a dict
RulesIsDict(r) == r.type = "dict"

\* map_with_hard_rules, lines 87-89: the tier flag
HardRulesEnabled(r) ==
    LET tier_config == Get(r, "tier_config", EmptyDict)
    IN  Get(tier_config, "use_hard_path_rules", Get(tier_config, "use_hard_rules", TRUE))

\* flat_rules.update(mappings): an existing key keeps its place and takes the
\* new value, a new key is appended
RECURSIVE DictUpdate(_, _)
DictUpdate(flat, mappings) ==
    IF mappings = <<>> THEN flat
    ELSE LET e == Head(mappings)
             hit == {i \in 1..Len(flat) : flat[i].rule_path = e.rule_path}
             next == IF hit = {} THEN Append(flat, e)
                     ELSE [i \in 1..Len(flat) |-> IF i \in hit THEN e ELSE flat[i]]
         IN  DictUpdate(next, Tail(mappings))

RECURSIVE Flatten(_, _)
Flatten(flat, nested_rules) ==
    IF nested_rules = <<>> THEN flat
    ELSE Flatten(IF Head(nested_rules).is_dict
                 THEN DictUpdate(flat, Head(nested_rules).mappings)
                 ELSE flat,
                 Tail(nested_rules))

\* map_with_hard_rules, lines 96-108: the flattened (substring -> asset_id) table
FlatRules(r) ==
    LET path_rules_config == Get(r, "path_rules", EmptyDict)
    IN  IF "rules" \in DOMAIN path_rules_config
        THEN Flatten(<<>>, path_rules_config.rules)
        ELSE <<>>

\* map_with_keywords, line 141: the tier flag
KeywordMatchingEnabled(r) ==
    Get(Get(r, "tier_config", EmptyDict), "use_keyword_matching", TRUE)

\* map_with_keywords, lines 155-158
KeywordMappings(r) ==
    LET keyword_rules_config == Get(r, "keyword_rules", EmptyDict)
    IN  Get(keyword_rules_config, "mappings", Get(keyword_rules_config, "rules", <<>>))

\* faulty variant: the AI-fallback flag is not read
AiFallbackEnabled_Ignored(r) == TRUE

\* map_vulnerability_hybrid, line 137: the AI-fallback flag
AiFallbackEnabled(r) ==
    Get(Get(r, "tier_config", EmptyDict), "use_ai_fallback", TRUE)

-----------------------------------------------------------------------------
(* Asset inventory documents (db_service.list_asset_inventories_by_user)   *)
(* and _find_asset_by_id.  A document is a record _id, filename, data;     *)
(* data is [type |-> "dict", d |-> fields], [type |-> "list", items |-> s] *)
(* or [type |-> "none"].  A matched copy carries further keys.             *)

\* an Excel inventory: header row and data rows
DocSheet ==
    [_id |-> "doc-1", filename |-> <<"a","s","s","e","t","s",".","x","l","s","x">>,
     data |-> [type |-> "dict", d |-> [sheets |-> <<
        [rows |-> << << <<"A","s","s","e","t"," ","I","D">>, <<"A","s","s","e","t"," ","N","a","m","e">>, <<"H","o","u","r","l","y"," ","C","o","s","t">>, <<"R","T","O">> >>,
                     << <<"A","P","P","-","0","0","1">>, <<"P","a","y","m","e","n","t","s">>, <<"$","5","0",",","0","0","0">>, <<"4"," ","h","o","u","r","s">> >>,
                     << <<" ","a","p","p","-","0","0","2"," ">>, <<"B","i","l","l","i","n","g","_","D","B">>, <<"1","0","0","0">>, <<"2","4">> >>,
                     << <<"A","P","P","-","0","0","3">>, <<"P","o","r","t","a","l">>, <<"n","/","a">>, <<"2">> >> >>] >>]]]

\* a workbook whose sheets hold no usable table: one row only, no id column
DocNoTable ==
    [_id |-> "doc-2", filename |-> <<"n","o","t","e","s",".","x","l","s","x">>,
     data |-> [type |-> "dict", d |-> [sheets |-> <<
        [rows |-> << << <<"A","s","s","e","t"," ","I","D">>, <<"R","T","O">> >> >>],
        [rows |-> << << <<"N","a","m","e">>, <<"O","w","n","e","r">> >>, << <<"A","P","P","-","0","0","1">>, <<"o","p","s">> >> >>] >>]]]

\* a document already parsed to a dict with an id-like key
DocDict ==
    [_id |-> "doc-3", filename |-> <<"b","i","l","l","i","n","g","_","d","b",".","x","l","s","x">>,
     data |-> [type |-> "dict", d |-> [asset_id |-> <<"A","P","P","-","0","0","2">>, owner |-> <<"o","p","s">>]]]

\* a document parsed to a list of records
DocList ==
    [_id |-> "doc-4", filename |-> <<"p","o","r","t","a","l",".","x","l","s","x">>,
     data |-> [type |-> "list",
               items |-> << [type |-> "dict", d |-> [code |-> <<"a","p","p","-","0","0","3">>]] >>]]

\* the inventories a user can have stored
Inventories == << <<>>, <<DocSheet>>, <<DocNoTable, DocDict, DocList>> >>

\* the header's if/elif chain, line 243-250
ColKind(col_name) ==
    LET col_lower == Lower(Str(col_name))
    IN  IF Contains(<<"a","s","s","e","t">>, col_lower) /\ Contains(<<"i","d">>, col_lower) THEN "id"
        ELSE IF Contains(<<"a","s","s","e","t">>, col_lower) /\ Contains(<<"n","a","m","e">>, col_lower) THEN "name"
        ELSE IF Contains(<<"h","o","u","r","l","y">>, col_lower)
                \/ (Contains(<<"c","o","s","t">>, col_lower) /\ Contains(<<"h","o","u","r">>, col_lower)) THEN "cost"
        ELSE IF Contains(<<"r","t","o">>, col_lower) THEN "rto"
        ELSE "none"

\* the largest and the smallest of a set of positions (0: the set is empty)
LastOf(S) == IF S = {} THEN 0 ELSE CHOOSE i \in S : \A j \in S : j <= i

FirstOf(S) == IF S = {} THEN 0 ELSE CHOOSE i \in S : \A j \in S : i <= j

\* the column index a kind ends with after the header loop (1-based; 0: None)
ColIdx(header, kind) == LastOf({i \in 1..Len(header) : ColKind(header[i]) = kind})

\* str(row[idx]) when the column was found and the row reaches it
Cell(row, col_idx) ==
    IF col_idx # 0 /\ Len(row) >= col_idx
    THEN [has |-> TRUE, text |-> Str(row[col_idx])]
    ELSE [has |-> FALSE, text |-> <<>>]

\* lines 265-266
NameEntry(cell) ==
    IF cell.has THEN ("extracted_asset_name" :> cell.text) ELSE EmptyDict

\* lines 271-276: float() of the cost text, ValueError swallowed
ParsedCost(cell) ==
    IF cell.has THEN ParseFloat(Strip(Remove(Remove(cell.text, <<"$">>), <<",">>)))
    ELSE [ok |-> FALSE, val |-> 0]

\* lines 278-283: float() of the RTO text, ValueError swallowed
ParsedRto(cell) ==
    IF cell.has THEN ParseFloat(Strip(Remove(Remove(cell.text, <<"h","o","u","r","s">>), <<"h","o","u","r">>)))
    ELSE [ok |-> FALSE, val |-> 0]

FinancialEntry(key, parsed) == IF parsed.ok THEN (key :> parsed.val) ELSE EmptyDict

\* faulty variant: one cell that does not parse loses both amounts
ExtractRow_AllOrNothing(asset, header, row) ==
    ("extracted_financial_data" :>
        (IF /\ ParsedCost(Cell(row, ColIdx(header, "cost"))).ok
            /\ ParsedRto(Cell(row, ColIdx(header, "rto"))).ok
         THEN [hourly_cost |-> ParsedCost(Cell(row, ColIdx(header, "cost"))).val,
               rto_hours |-> ParsedRto(Cell(row, ColIdx(header, "rto"))).val]
         ELSE EmptyDict))
    @@ NameEntry(Cell(row, ColIdx(header, "name")))
    @@ asset

\* lines 261-285: the copy of the document with the matched row's data
ExtractRow(asset, header, row) ==
    ("extracted_financial_data" :>
        (FinancialEntry("hourly_cost", ParsedCost(Cell(row, ColIdx(header, "cost"))))
         @@ FinancialEntry("rto_hours", ParsedRto(Cell(row, ColIdx(header, "rto"))))
         @@ EmptyDict))
    @@ NameEntry(Cell(row, ColIdx(header, "name")))
    @@ asset

\* lines 256-259: the first data row whose id cell equals the target (0: none)
MatchingRowIn(rows, asset_id_col_idx, asset_id_lower) ==
    IF asset_id_col_idx = 0 THEN 0
    ELSE FirstOf({k \in 2..Len(rows) :
                    /\ Len(rows[k]) >= asset_id_col_idx
                    /\ Lower(Strip(Str(rows[k][asset_id_col_idx]))) = asset_id_lower})

MatchingRow(rows, asset_id_lower) ==
    MatchingRowIn(rows, ColIdx(rows[1], "id"), asset_id_lower)

\* the first sheet of the document with a matching row (0: none)
MatchingSheet(sheets, asset_id_lower) ==
    FirstOf({s \in 1..Len(sheets) :
               /\ Len(Get(sheets[s], "rows", <<>>)) >= 2
               /\ MatchingRow(sheets[s].rows, asset_id_lower) # 0})

IdKeys == {"asset_id", "id", "asset_code", "code", "application_id"}

\* lines 288-291 and 297-300: some id-like key of the dict equals the target
IdKeyMatches(d, asset_id_lower) ==
    \E key \in IdKeys : Lower(Str(Get(d, key, <<>>))) = asset_id_lower

\* line 225-226
Sheets(asset_data) ==
    IF asset_data.type = "dict" /\ "sheets" \in DOMAIN asset_data.d
    THEN asset_data.d.sheets ELSE <<>>

RowHit(asset, rows, asset_id_lower) ==
    [how |-> "row",
     asset |-> ExtractRow(asset, rows[1], rows[MatchingRow(rows, asset_id_lower)])]

\* one iteration of "for asset in assets", s the matching sheet: "row" (a copy
\* with the row's data), "ref" (the document itself, by reference) or "none"
FindInData(asset, asset_data, s, asset_id_lower) ==
    IF s # 0 THEN RowHit(asset, Sheets(asset_data)[s].rows, asset_id_lower)
    ELSE IF asset_data.type = "dict" /\ IdKeyMatches(asset_data.d, asset_id_lower)
    THEN [how |-> "ref", asset |-> asset]
    ELSE IF /\ asset_data.type = "list"
            /\ Len(asset_data.items) > 0
            /\ asset_data.items[1].type = "dict"
            /\ IdKeyMatches(asset_data.items[1].d, asset_id_lower)
    THEN [how |-> "ref", asset |-> asset]
    ELSE [how |-> "none", asset |-> EmptyDict]

FindInSheets(asset, asset_data, asset_id_lower) ==
    FindInData(asset, asset_data, MatchingSheet(Sheets(asset_data), asset_id_lower),
               asset_id_lower)

FindInAsset(asset, asset_id_lower) ==
    FindInSheets(asset, Get(asset, "data", [type |-> "dict", d |-> EmptyDict]),
                 asset_id_lower)

\* "for asset in assets" from position i on: found, the record, and ref = the
\* position in assets of the document when it is returned itself and not as a
\* copy (0 for a copy)
RECURSIVE FindFrom(_, _, _)
FoundOrNext(r, i, asset_id_lower, assets) ==
    IF r.how = "none" THEN FindFrom(asset_id_lower, assets, i + 1)
    ELSE [found |-> TRUE, asset |-> r.asset, ref |-> IF r.how = "ref" THEN i ELSE 0]

FindFrom(asset_id_lower, assets, i) ==
    IF i > Len(assets) THEN [found |-> FALSE, asset |-> EmptyDict, ref |-> 0]
    ELSE FoundOrNext(FindInAsset(assets[i], asset_id_lower), i, asset_id_lower, assets)

_find_asset_by_id(asset_id, assets) == FindFrom(Lower(asset_id), assets, 1)

-----------------------------------------------------------------------------
(* Findings as the scanners report them (scanner_service.run_security_scan *)
(* "essential" entries): records with the keys the tool gives; every text  *)
(* and the line number are kept as the characters the tool printed.        *)

FindingPool ==
    << [file |-> <<"s","r","c","/","d","b","/","P","a","y",".","p","y">>, line |-> <<"1","0">>, severity |-> <<"C","R","I","T","I","C","A","L">>,
        message |-> <<"S","Q","L"," ","i","n","j","e","c","t","i","o","n">>, rule_id |-> <<"r","-","s","q","l","i">>],
       [package |-> <<"d","b","l","i","b">>, severity |-> <<"h","i","g","h">>, via |-> "x", range |-> "<2"],
       [file |-> Null, line |-> <<"7">>, severity |-> <<"M","E","D","I","U","M">>,
        message |-> <<"x","s","s">>, rule_id |-> <<"r","-","x","s","s">>],
       [file |-> <<"l","i","b","/","u",".","j","s">>, severity |-> <<"W","A","R","N","I","N","G">>, rule |-> "r",
        line |-> <<"4">>, description |-> <<"x","s","s">>],
       [file |-> <<"s","r","c","/","x",".","p","y">>, line |-> <<"3">>, severity |-> <<"C","r","i","t","i","c","a","l"," ","I","s","s","u","e">>,
        message |-> <<"c","a","r","d">>, rule_id |-> <<"r","-","c","a","r","d">>] >>

-----------------------------------------------------------------------------
(* rule_based_mapper.py: Tier 1 and Tier 2.  Each tier reads self.rules    *)
(* twice (the tier flag, then the table); the two reads are the two        *)
(* arguments cfg and tab.                                                  *)

\* a tier's outcomes
NoResult == [status |-> "none"]

Raised(what) == [status |-> "raise", error |-> what]

\* lines 110-122: the first rule, in table order, whose substring is in the
\* path and whose asset id resolves
RECURSIVE HardRulesLoop(_, _, _)
\* faulty variant: the first rule whose substring is in the path ends the scan,
\* whether its asset id resolves or not
RuleOutcome_FirstMatchEnds(rule, matched_asset, flat_rules, file_path, assets) ==
    IF ~Contains(Lower(rule.rule_path), file_path)
    THEN HardRulesLoop(Tail(flat_rules), file_path, assets)
    ELSE IF ~matched_asset.found THEN [status |-> "none"]
    ELSE [status |-> "hit",
          asset |-> matched_asset.asset,
          ref |-> matched_asset.ref,
          metadata |-> [tier |-> "hard_rules",
                        confidence |-> 100,
                        match_reason |-> [kind |-> "path_rule",
                                          rule_path |-> rule.rule_path,
                                          asset_id |-> rule.asset_id],
                        rule_used |-> rule.rule_path,
                        asset_id |-> rule.asset_id]]

RuleOutcome(rule, matched_asset, flat_rules, file_path, assets) ==
    IF Contains(Lower(rule.rule_path), file_path) /\ matched_asset.found
    THEN [status |-> "hit",
          asset |-> matched_asset.asset,
          ref |-> matched_asset.ref,
          metadata |-> [tier |-> "hard_rules",
                        confidence |-> 100,
                        match_reason |-> [kind |-> "path_rule",
                                          rule_path |-> rule.rule_path,
                                          asset_id |-> rule.asset_id],
                        rule_used |-> rule.rule_path,
                        asset_id |-> rule.asset_id]]
    ELSE HardRulesLoop(Tail(flat_rules), file_path, assets)

HardRulesLoop(flat_rules, file_path, assets) ==
    IF flat_rules = <<>> THEN NoResult
    ELSE RuleOutcome(Head(flat_rules),
                     _find_asset_by_id(Head(flat_rules).asset_id, assets),
                     flat_rules, file_path, assets)

\* map_with_hard_rules, lines 87-93: "go" when the tier is to scan its table
HardRulesGate(cfg, vulnerability) ==
    IF ~RulesIsDict(cfg) THEN Raised("AttributeError")
    ELSE IF ~HardRulesEnabled(cfg) THEN NoResult
    ELSE IF Get(vulnerability, "file", <<>>) = Null THEN Raised("AttributeError")
    ELSE IF Lower(Get(vulnerability, "file", <<>>)) = <<>> THEN NoResult
    ELSE [status |-> "go"]

Reverse(s) == [i \in 1..Len(s) |-> s[Len(s) + 1 - i]]

\* faulty variant: the table is scanned from its last rule to its first
HardRulesScan_LastRuleFirst(tab, vulnerability, assets) ==
    IF ~RulesIsDict(tab) THEN Raised("AttributeError")
    ELSE HardRulesLoop(Reverse(FlatRules(tab)), Lower(Get(vulnerability, "file", <<>>)),
                       assets)

\* map_with_hard_rules, lines 96-124
HardRulesScan(tab, vulnerability, assets) ==
    IF ~RulesIsDict(tab) THEN Raised("AttributeError")
    ELSE HardRulesLoop(FlatRules(tab), Lower(Get(vulnerability, "file", <<>>)), assets)

map_with_hard_rules(cfg, tab, vulnerability, assets) ==
    LET gate == HardRulesGate(cfg, vulnerability)
    IN  IF gate.status = "go" THEN HardRulesScan(tab, vulnerability, assets) ELSE gate

\* lines 145-150
VulnText(vulnerability) ==
    Lower(Join(<< Str(Get(vulnerability, "file", <<>>)),
                  Str(Get(vulnerability, "package", <<>>)),
                  Str(Get(vulnerability, "message", <<>>)),
                  Str(Get(vulnerability, "description", <<>>)) >>))

\* lines 167-172: the keywords of one entry found in the text, in order
MatchedKeywords(keywords, vuln_text) ==
    SelectSeq(keywords, LAMBDA keyword : Contains(Lower(keyword), vuln_text))

\* lines 165-176: the entries with score > 0, in configuration order
AssetScores(keyword_mappings, vuln_text) ==
    SelectSeq([i \in 1..Len(keyword_mappings) |->
                  [asset_id |-> keyword_mappings[i].asset_id,
                   matches |-> IF keyword_mappings[i].is_list
                               THEN MatchedKeywords(keyword_mappings[i].keywords, vuln_text)
                               ELSE <<>>]],
              LAMBDA e : Len(e.matches) > 0)

\* faulty variant: among equal top scores the last entry is taken
BestScore_LastOfTies(asset_scores) ==
    asset_scores[CHOOSE i \in 1..Len(asset_scores) :
                    /\ \A j \in 1..Len(asset_scores) :
                          Len(asset_scores[j].matches) <= Len(asset_scores[i].matches)
                    /\ \A j \in (i + 1)..Len(asset_scores) :
                          Len(asset_scores[j].matches) < Len(asset_scores[i].matches)]

\* max(asset_scores, key=asset_scores.get): the first entry with the top score
BestScore(asset_scores) ==
    LET best == CHOOSE i \in 1..Len(asset_scores) :
                    /\ \A j \in 1..Len(asset_scores) :
                          Len(asset_scores[j].matches) <= Len(asset_scores[i].matches)
                    /\ \A j \in 1..(i - 1) :
                          Len(asset_scores[j].matches) < Len(asset_scores[i].matches)
    IN  asset_scores[best]

Min(a, b) == IF a < b THEN a ELSE b

\* map_with_keywords, lines 141-153
KeywordsGate(cfg, vulnerability) ==
    IF ~RulesIsDict(cfg) THEN Raised("AttributeError")
    ELSE IF ~KeywordMatchingEnabled(cfg) THEN NoResult
    ELSE IF Strip(VulnText(vulnerability)) = <<>> THEN NoResult
    ELSE [status |-> "go"]

\* lines 178-201: the asset of the best entry, when the inventory has it
KeywordsHit(best, matched_asset) ==
    IF matched_asset.found
    THEN [status |-> "hit",
          asset |-> matched_asset.asset,
          ref |-> matched_asset.ref,
          metadata |-> [tier |-> "keywords",
                        confidence |-> Min(60 + Len(best.matches) * 10, 90),
                        match_reason |-> [kind |-> "keywords",
                                          count |-> Len(best.matches),
                                          asset_id |-> best.asset_id,
                                          keywords |-> best.matches],
                        keywords_matched |-> Len(best.matches),
                        asset_id |-> best.asset_id]]
    ELSE NoResult

KeywordsBest(best, assets) == KeywordsHit(best, _find_asset_by_id(best.asset_id, assets))

KeywordsPick(asset_scores, assets) ==
    IF asset_scores = <<>> THEN NoResult
    ELSE KeywordsBest(BestScore(asset_scores), assets)

\* map_with_keywords, lines 155-201
KeywordsScan(tab, vulnerability, assets) ==
    IF ~RulesIsDict(tab) THEN Raised("AttributeError")
    ELSE KeywordsPick(AssetScores(KeywordMappings(tab), VulnText(vulnerability)), assets)

map_with_keywords(cfg, tab, vulnerability, assets) ==
    LET gate == KeywordsGate(cfg, vulnerability)
    IN  IF gate.status = "go" THEN KeywordsScan(tab, vulnerability, assets) ELSE gate

\* map_vulnerability_hybrid, lines 119-121 and 129-131: the three keys written
\* to the matched asset object
WithMapping(matched_asset, metadata) ==
    ("mapping_confidence" :> metadata.confidence)
    @@ ("mapping_reasoning" :> metadata.match_reason)
    @@ ("mapping_tier" :> metadata.tier)
    @@ matched_asset

-----------------------------------------------------------------------------
(* asset_mapper_service.py: Tier 3 and enrichment.                         *)
(* What line 228 hands back is an outcome: [kind |-> "raise"], or          *)
(* [kind |-> "text", open, close, json] where open = text.find("{"),       *)
(* close = text.rfind("}") (-1: absent) and json is what json.loads makes  *)
(* of the text between them: [ok |-> FALSE] (JSONDecodeError) or           *)
(* [ok |-> TRUE, obj |-> the object].  A number in the object is           *)
(* [int |-> TRUE, val |-> n]; [int |-> FALSE] is a value of another type.  *)

\* def perform_ai_check(tool, file_path, content): positional parameters
PerformAiCheckParams == 3

\* perform_ai_check(prompt): arguments passed at asset_mapper_service.py:228
PerformAiCheckArgs == 1

\* the call of line 228 for a capability that would answer reply: Python
\* raises TypeError when the arguments do not bind to the parameters
perform_ai_check(reply) ==
    IF PerformAiCheckArgs # PerformAiCheckParams THEN [kind |-> "raise"] ELSE reply

\* faulty variant: the reply's "matched" field is not read and an index past
\* the list takes the last asset
AiJudgement_Trusting(ai_response, assets) ==
    IF ai_response.kind = "raise" THEN NoResult
    ELSE IF ~ai_response.json.ok THEN NoResult
    ELSE IF ~Get(ai_response.json.obj, "asset_index", [int |-> FALSE]).int THEN NoResult
    ELSE IF ai_response.json.obj.asset_index.val < 0 THEN NoResult
    ELSE [status |-> "hit",
          asset |->
            ("mapping_confidence" :> Get(ai_response.json.obj, "confidence", 0))
            @@ ("mapping_reasoning" :> Get(ai_response.json.obj, "reasoning", ""))
            @@ ("business_impact" :> Get(ai_response.json.obj, "business_impact", ""))
            @@ assets[IF ai_response.json.obj.asset_index.val < Len(assets)
                      THEN ai_response.json.obj.asset_index.val + 1 ELSE Len(assets)]]

\* lines 232-252 under the try of line 226: the matched copy, or None
AiJudgement(ai_response, assets) ==
    IF ai_response.kind = "raise" THEN NoResult
    ELSE LET json_start == ai_response.open
             json_end == ai_response.close + 1
         IN  IF ~(json_start # -1 /\ json_end > json_start) THEN NoResult
             ELSE IF ~ai_response.json.ok THEN NoResult
             ELSE LET result == ai_response.json.obj
                      asset_index == Get(result, "asset_index", [int |-> TRUE, val |-> -1])
                  IN  IF ~Get(result, "matched", FALSE) THEN NoResult
                      ELSE IF ~asset_index.int THEN NoResult
                      ELSE IF ~(asset_index.val >= 0) THEN NoResult
                      ELSE IF ~(0 <= asset_index.val /\ asset_index.val < Len(assets))
                           THEN NoResult
                      ELSE [status |-> "hit",
                            asset |->
                              ("mapping_confidence" :> Get(result, "confidence", 0))
                              @@ ("mapping_reasoning" :> Get(result, "reasoning", ""))
                              @@ ("business_impact" :> Get(result, "business_impact", ""))
                              @@ assets[asset_index.val + 1]]

\* map_vulnerability_to_asset_with_ai: every error of the call or of the
\* parsing is caught at line 254
map_vulnerability_to_asset_with_ai(vulnerability, assets, ai_response) ==
    IF assets = <<>> THEN NoResult ELSE AiJudgement(ai_response, assets)

\* map_vulnerability_hybrid, lines 139-146
HybridTier3(vulnerability, assets, ai_response) ==
    LET ai_result == map_vulnerability_to_asset_with_ai(vulnerability, assets, ai_response)
    IN  IF ai_result.status = "hit"
        THEN [status |-> "hit", asset |-> ("mapping_tier" :> "ai") @@ ai_result.asset]
        ELSE NoResult

DefaultHourlyCost == 10000

DefaultRtoHours == 24

\* fetch_financial_parameters (documents left out: nothing reads them)
fetch_financial_parameters ==
    [default_hourly_cost |-> DefaultHourlyCost,
     default_rto_hours |-> DefaultRtoHours,
     has_pii_data |-> FALSE]

Medium == <<"m","e","d","i","u","m">>

Low == <<"l","o","w">>

\* enrich_vulnerability_with_asset; matched is [status |-> "hit", asset |-> a]
\* or NoResult (asset None)
enrich_vulnerability_with_asset(vulnerability, matched, financial_params) ==
    IF matched.status = "hit"
    THEN LET asset == matched.asset
             asset_name == Get(asset, "extracted_asset_name",
                               Get(asset, "filename", <<"U","n","k","n","o","w","n"," ","A","s","s","e","t">>))
             extracted_financial == Get(asset, "extracted_financial_data", EmptyDict)
         IN  ("matched_asset" :>
                 [present |-> TRUE,
                  id |-> Get(asset, "_id", ""),
                  filename |-> Get(asset, "filename", Null),
                  asset_name |-> asset_name,
                  confidence |-> Get(asset, "mapping_confidence", 0),
                  reasoning |-> Get(asset, "mapping_reasoning", ""),
                  business_impact |-> Get(asset, "business_impact", ""),
                  tier |-> Get(asset, "mapping_tier", "unknown"),
                  data |-> Get(asset, "data", EmptyDict)])
             @@ ("financial_context" :>
                 [hourly_cost |-> Get(extracted_financial, "hourly_cost",
                                      Get(financial_params, "default_hourly_cost",
                                          DefaultHourlyCost)),
                  rto_hours |-> Get(extracted_financial, "rto_hours",
                                    Get(financial_params, "default_rto_hours",
                                        DefaultRtoHours)),
                  has_pii_data |-> Get(financial_params, "has_pii_data", FALSE),
                  asset_criticality |-> Medium])
             @@ vulnerability
    ELSE ("matched_asset" :> [present |-> FALSE])
         @@ ("financial_context" :>
             [hourly_cost |-> Get(financial_params, "default_hourly_cost",
                                  DefaultHourlyCost),
              rto_hours |-> Get(financial_params, "default_rto_hours", DefaultRtoHours),
              has_pii_data |-> FALSE,
              asset_criticality |-> Low])
         @@ vulnerability

-----------------------------------------------------------------------------
(* risk_ticket_generator.py.  The narrative fields of a ticket             *)
(* (severity_emoji, business_impact, executive_summary) are texts built    *)
(* from the fields kept here and are left out.                             *)

\* s.replace(old, new), old non-empty
RECURSIVE Replace(_, _, _)
Replace(s, old, new) ==
    IF Len(s) < Len(old) THEN s
    ELSE IF SubSeq(s, 1, Len(old)) = old
         THEN new \o Replace(SubSeq(s, Len(old) + 1, Len(s)), old, new)
         ELSE <<Head(s)>> \o Replace(Tail(s), old, new)

IsCased(c) == (\E i \in 1..26 : UpperAlpha[i] = c) \/ (\E i \in 1..26 : LowerAlpha[i] = c)

\* s.title(): a letter after a letter is lowered, any other letter is raised
Title(s) ==
    [i \in 1..Len(s) |->
        IF i > 1 /\ IsCased(s[i - 1]) THEN LowerChar(s[i]) ELSE UpperChar(s[i])]

\* a or b: b when a is empty or None
Or(a, b) == IF a = <<>> \/ a = Null THEN b ELSE a

\* fix_cost passed to calculate_rosi
FixCost == 5000

\* lines 193-203: asset_name and confidence
TicketAssetName(matched_asset) ==
    LET asset_name == Get(matched_asset, "asset_name",
                          Get(matched_asset, "filename", <<"U","n","k","n","o","w","n"," ","A","s","s","e","t">>))
    IN  IF Contains(<<".","x","l","s","x">>, asset_name) \/ Contains(<<"_">>, asset_name)
        THEN Title(Replace(Replace(asset_name, <<".","x","l","s","x">>, <<>>), <<"_">>, <<" ">>))
        ELSE asset_name

\* lines 206-213: the RTO the losses are computed with
TicketRto(severity, financial_context) ==
    LET rto_hours == Get(financial_context, "rto_hours", 24)
    IN  IF rto_hours = 24
        THEN estimate_rto_from_severity(severity,
                 Get(financial_context, "asset_criticality", Medium))
        ELSE rto_hours

generate_risk_ticket(ticket_number, vulnerability, enriched_data) ==
    LET financial_context == Get(enriched_data, "financial_context", EmptyDict)
        severity == Get(vulnerability, "severity", W_UNKNOWN)
        matched_asset == Get(vulnerability, "matched_asset", [present |-> FALSE])
        hourly_cost == Get(financial_context, "hourly_cost", 10000)
        has_pii == Get(financial_context, "has_pii_data", FALSE)
        rto_hours == TicketRto(severity, financial_context)
        direct_loss == calculate_direct_loss(hourly_cost, rto_hours)
        impact_breakdown == calculate_total_impact(direct_loss, has_pii)
        total_exposure == impact_breakdown.total_impact
    IN  [ticket_number |-> ticket_number,
         severity |-> severity,
         severity_weight |-> get_severity_weight(severity),
         asset_name |-> IF matched_asset.present THEN TicketAssetName(matched_asset)
                        ELSE <<"U","n","i","d","e","n","t","i","f","i","e","d"," ","S","y","s","t","e","m"," ","C","o","m","p","o","n","e","n","t">>,
         asset_confidence |-> IF matched_asset.present
                              THEN Get(matched_asset, "confidence", 0) ELSE 0,
         financial_exposure |-> [total |-> total_exposure,
                                 direct_loss |-> impact_breakdown.direct_loss,
                                 indirect_loss |-> impact_breakdown.indirect_loss,
                                 breach_penalty |-> impact_breakdown.breach_penalty],
         rosi |-> calculate_rosi(total_exposure, FixCost),
         technical_details |->
             [file |-> Get(vulnerability, "file", <<"N","/","A">>),
              line |-> Get(vulnerability, "line", <<"N","/","A">>),
              package |-> Get(vulnerability, "package", <<"N","/","A">>),
              rule_id |-> Or(Get(vulnerability, "rule_id", <<>>),
                             Get(vulnerability, "test_id", <<>>)),
              original_message |-> Or(Get(vulnerability, "message", <<>>),
                                      Or(Get(vulnerability, "issue", <<>>),
                                         Get(vulnerability, "description", <<>>)))],
         matched_asset_details |-> matched_asset]

\* tuple comparison a < b of two (weight, amount) keys
KeyLess(a, b) == a[1] < b[1] \/ (a[1] = b[1] /\ a[2] < b[2])

\* list.sort / sorted with reverse=True is stable: an entry goes in front of
\* the first entry whose key is smaller, behind every entry with an equal key
RECURSIVE InsertDesc(_, _)
InsertDesc(sorted, e) ==
    IF sorted = <<>> THEN <<e>>
    ELSE IF KeyLess(Head(sorted).key, e.key) THEN <<e>> \o sorted
    ELSE <<Head(sorted)>> \o InsertDesc(Tail(sorted), e)

RECURSIVE SortDesc(_)
SortDesc(entries) ==
    IF entries = <<>> THEN <<>>
    ELSE InsertDesc(SortDesc(SubSeq(entries, 1, Len(entries) - 1)), entries[Len(entries)])

\* lines 356-360
GenerateEach(enriched_vulnerabilities) ==
    [idx \in 1..Len(enriched_vulnerabilities) |->
        generate_risk_ticket(idx, enriched_vulnerabilities[idx],
                             enriched_vulnerabilities[idx])]

\* lines 363-366
SortTickets(tickets) ==
    LET sorted == SortDesc([i \in 1..Len(tickets) |->
                     [key |-> <<tickets[i].severity_weight,
                                tickets[i].financial_exposure.total>>,
                      item |-> tickets[i]]])
    IN  [i \in 1..Len(sorted) |-> sorted[i].item]

\* faulty variant: the tickets keep the number they were generated with
Renumber_Skipped(tickets) == tickets

\* lines 369-370
Renumber(tickets) ==
    [idx \in 1..Len(tickets) |-> [tickets[idx] EXCEPT !.ticket_number = idx]]

generate_all_risk_tickets(enriched_vulnerabilities) ==
    Renumber(SortTickets(GenerateEach(enriched_vulnerabilities)))

-----------------------------------------------------------------------------
(* financial_pipeline.py.  scan_results is the dict of tool results in     *)
(* insertion order: a sequence of [tool, result]; a result's "essential"   *)
(* value is [type |-> "list", items |-> findings] or a value of another    *)
(* type.                                                                   *)

RECURSIVE extract_all_vulnerabilities(_)
\* faulty variant: only the findings of the first tool are taken
extract_all_vulnerabilities_FirstTool(scan_results) ==
    IF scan_results = <<>> THEN <<>>
    ELSE LET essential_findings == Get(Head(scan_results).result, "essential",
                                       [type |-> "list", items |-> <<>>])
         IN  IF essential_findings.type = "list"
             THEN [i \in 1..Len(essential_findings.items) |->
                      ("source_tool" :> Head(scan_results).tool) @@ essential_findings.items[i]]
             ELSE <<>>

extract_all_vulnerabilities(scan_results) ==
    IF scan_results = <<>> THEN <<>>
    ELSE LET tool_name == Head(scan_results).tool
             essential_findings == Get(Head(scan_results).result, "essential",
                                       [type |-> "list", items |-> <<>>])
             found == IF essential_findings.type = "list"
                      THEN [i \in 1..Len(essential_findings.items) |->
                               ("source_tool" :> tool_name) @@ essential_findings.items[i]]
                      ELSE <<>>
         IN  found \o extract_all_vulnerabilities(Tail(scan_results))

\* faulty variant: among equal weights the later vulnerability comes first
sort_vulnerabilities_by_severity_unstable(vulnerabilities) ==
    LET sorted == SortDesc([i \in 1..Len(vulnerabilities) |->
                     [key |-> <<get_severity_weight(Get(vulnerabilities[i], "severity", <<>>)), i>>,
                      item |-> vulnerabilities[i]]])
    IN  [i \in 1..Len(sorted) |-> sorted[i].item]

\* sorted(..., key=severity weight, reverse=True), line 72
sort_vulnerabilities_by_severity(vulnerabilities) ==
    LET sorted == SortDesc([i \in 1..Len(vulnerabilities) |->
                     [key |-> <<get_severity_weight(Get(vulnerabilities[i], "severity", <<>>)), 0>>,
                      item |-> vulnerabilities[i]]])
    IN  [i \in 1..Len(sorted) |-> sorted[i].item]

RECURSIVE Sum(_)
Sum(s) == IF s = <<>> THEN 0 ELSE Head(s) + Sum(Tail(s))

\* round(sum(xs) / len(xs)) to the nearest unit, ties to even, computed on
\* quotients and remainders so that the sum stays in 32 bits
Average(xs) ==
    LET n == Len(xs)
        rem == Sum([i \in 1..n |-> xs[i] % n])
        q == Sum([i \in 1..n |-> xs[i] \div n]) + rem \div n
        r == rem % n
    IN  IF 2 * r > n THEN q + 1
        ELSE IF 2 * r < n THEN q
        ELSE q + (q % 2)

\* faulty variant: every severity that occurs is counted once
SeverityCounts_Flags(risk_tickets) ==
    [severity \in {Upper(risk_tickets[i].severity) : i \in 1..Len(risk_tickets)} |-> 1]

\* lines 109-112: severity.upper() -> number of tickets
SeverityCounts(risk_tickets) ==
    [severity \in {Upper(risk_tickets[i].severity) : i \in 1..Len(risk_tickets)} |->
        Cardinality({i \in 1..Len(risk_tickets) : Upper(risk_tickets[i].severity) = severity})]

calculate_summary_statistics(risk_tickets) ==
    IF risk_tickets = <<>>
    THEN [total_vulnerabilities |-> 0,
          total_financial_exposure |-> 0,
          severity_breakdown |-> EmptyDict,
          total_fix_cost |-> 0,
          total_rosi |-> 0,
          critical_count |-> 0,
          high_count |-> 0,
          medium_count |-> 0,
          low_count |-> 0]
    ELSE LET total_exposure ==
                 Sum([i \in 1..Len(risk_tickets) |-> risk_tickets[i].financial_exposure.total])
             total_fix_cost ==
                 Sum([i \in 1..Len(risk_tickets) |-> risk_tickets[i].rosi.fix_cost])
             severity_counts == SeverityCounts(risk_tickets)
         IN  [total_vulnerabilities |-> Len(risk_tickets),
              total_financial_exposure |-> total_exposure,
              severity_breakdown |-> severity_counts,
              total_fix_cost |-> total_fix_cost,
              average_rosi_x100 |->
                  Average([i \in 1..Len(risk_tickets) |->
                              risk_tickets[i].rosi.rosi_percentage_x100]),
              net_benefit |-> total_exposure - total_fix_cost,
              critical_count |-> Get(severity_counts, W_CRITICAL, 0),
              high_count |-> Get(severity_counts, W_HIGH, 0),
              medium_count |-> Get(severity_counts, W_MEDIUM, 0),
              low_count |-> Get(severity_counts, W_LOW, 0)]

\* process_scan_results, lines 151-158: the result of a clean scan
CleanScanResult ==
    [summary |-> calculate_summary_statistics(<<>>),
     risk_tickets |-> <<>>,
     vulnerabilities_processed |-> 0,
     assets_mapped |-> 0]

\* process_scan_results, lines 180-199
FullResult(all_vulnerabilities, enriched_vulnerabilities, risk_tickets) ==
    [summary |-> calculate_summary_statistics(risk_tickets),
     risk_tickets |-> risk_tickets,
     vulnerabilities_processed |-> Len(all_vulnerabilities),
     assets_mapped |-> Cardinality({i \in 1..Len(enriched_vulnerabilities) :
                                      enriched_vulnerabilities[i].matched_asset.present}),
     enriched_vulnerabilities |-> enriched_vulnerabilities]

\* the keys of the summary that generate_financial_report_markdown reads, in
\* the order lines 220-231 read them (average_rosi is kept in hundredths)
ReportSummaryKeys ==
    <<"total_vulnerabilities", "total_financial_exposure", "total_fix_cost", "net_benefit",
      "average_rosi_x100", "critical_count", "high_count", "medium_count", "low_count">>

\* the keys of a ticket that format_ticket_as_markdown and lines 255-259 read
ReportTicketKeys ==
    <<"ticket_number", "severity", "asset_name", "financial_exposure", "rosi",
      "technical_details">>

\* d[key] for each key in turn: the first key the dict lacks (0: none)
FirstMissing(keys, d) == FirstOf({i \in 1..Len(keys) : keys[i] \notin DOMAIN d})

\* generate_financial_report_markdown: the markdown text is returned ("ok") or
\* a subscript of the summary or of a ticket raises KeyError
generate_financial_report_markdown(financial_analysis) ==
    IF FirstMissing(ReportSummaryKeys, financial_analysis.summary) # 0
    THEN [status |-> "raise", error |-> "KeyError",
          key |-> ReportSummaryKeys[FirstMissing(ReportSummaryKeys,
                                                 financial_analysis.summary)]]
    ELSE IF \E i \in 1..Len(financial_analysis.risk_tickets) :
                FirstMissing(ReportTicketKeys, financial_analysis.risk_tickets[i]) # 0
    THEN [status |-> "raise", error |-> "KeyError", key |-> "ticket"]
    ELSE [status |-> "ok"]

-----------------------------------------------------------------------------
(* The program.  One run of process_scan_results (as perform_security_check *)
(* calls it) against the process-wide rule_mapper, whose reload_rules may   *)
(* be called by another thread at any time.  The run is cut where it reads  *)
(* rule_mapper.rules: lines 87 and 96 of map_with_hard_rules, 141 and 155   *)
(* of map_with_keywords, and get_config at line 136 of the hybrid matcher.  *)

VARIABLES
    scan_results,             \* the argument of process_scan_results
    store,                    \* the user's asset inventory documents in the database
    rules,                    \* rule_mapper.rules
    rule_file,                \* history: what the rule file held when rules was loaded
    pc,                       \* where the run is
    all_vulnerabilities,
    sorted_vulnerabilities,
    assets,                   \* the list fetch_user_assets returned (its documents are mutable)
    idx,                      \* position in sorted_vulnerabilities of the one being matched
    enriched_vulnerabilities,
    risk_tickets,
    result,                   \* the return value of process_scan_results
    exc,                      \* the exception that left process_scan_results or the report
    calls,                    \* history: calls made to the store, the two rule tiers, the AI capability
    trace,                    \* history: tier outcomes for the vulnerability being matched
    consulted,                \* history: the values of rules read during the current match
    ai_response,              \* history: what the AI call of the current match produced
    h_op, h_cases, h_out,     \* the function harness (SpecTickets, SpecFunctions)
    sessions,                 \* session_manager.sessions: session id -> session data
    dirs,                     \* the session ids whose session_dir exists on disk
    now,                      \* datetime.now(), in minutes
    next_id,                  \* history: how many uuid4 values create_session has drawn
    expired_sessions,         \* the list the cleanup thread is working through
    s_call                    \* history: the last SessionManager call and what it returned

vars == <<scan_results, store, rules, rule_file, pc, all_vulnerabilities,
          sorted_vulnerabilities, assets, idx, enriched_vulnerabilities, risk_tickets,
          result, exc, calls, trace, consulted, ai_response, h_op, h_cases, h_out,
          sessions, dirs, now, next_id, expired_sessions, s_call>>

pipeline_vars == <<scan_results, store, rules, rule_file, pc, all_vulnerabilities,
                   sorted_vulnerabilities, assets, idx, enriched_vulnerabilities,
                   risk_tickets, result, exc, calls, trace, consulted, ai_response>>

harness_vars == <<h_op, h_cases, h_out>>

session_vars == <<sessions, dirs, now, next_id, expired_sessions, s_call>>

\* no SessionManager call has returned yet
NoCall == [op |-> "none"]

\* SessionManager.__init__: no session, the clock at its origin
SessionManagerInit ==
    /\ sessions = EmptyDict
    /\ dirs = {}
    /\ now = 0
    /\ next_id = 1
    /\ expired_sessions = {}
    /\ s_call = NoCall

\* most findings in one scan
MaxFindings == 2

\* the tools of one scan, in the order their results are stored, and the
\* findings (positions in FindingPool) each can report
Tools == <<"semgrep", "njsscan">>

ToolFindings == << {1, 3, 5}, {2, 4} >>

ListsUpTo(S, n) == UNION {[1..k -> S] : k \in 0..n}

\* a tool's result: {"essential": [...]}, {"essential": "<text>"} or the
\* {"output": ...} of an unsupported tool
ToolResults(t) ==
    {[essential |-> [type |-> "list", items |-> [k \in 1..Len(picks) |-> FindingPool[picks[k]]]]] :
        picks \in ListsUpTo(ToolFindings[t], MaxFindings)}
    \cup {[essential |-> [type |-> "str"]], [output |-> "Tool not supported"]}

CountFindings(r) ==
    IF "essential" \in DOMAIN r /\ r.essential.type = "list" THEN Len(r.essential.items) ELSE 0

ScanResults ==
    {<<[tool |-> Tools[1], result |-> r1], [tool |-> Tools[2], result |-> r2]>> :
        <<r1, r2>> \in {p \in ToolResults(1) \X ToolResults(2) :
                           CountFindings(p[1]) + CountFindings(p[2]) <= MaxFindings}}

NoCalls == [store |-> 0, tier1 |-> 0, tier2 |-> 0, ai |-> 0]

NoException == [stage |-> "none"]

NoAiCall == [kind |-> "no_call"]

\* the pipeline before process_scan_results is entered; RuleBasedMapper()
\* has loaded the rule file at import
PipelineInit ==
    /\ scan_results \in ScanResults
    /\ store \in {Inventories[i] : i \in 1..Len(Inventories)}
    /\ rule_file \in RuleFiles
    /\ rules = _load_rules(rule_file)
    /\ pc = "start"
    /\ all_vulnerabilities = <<>>
    /\ sorted_vulnerabilities = <<>>
    /\ assets = <<>>
    /\ idx = 0
    /\ enriched_vulnerabilities = <<>>
    /\ risk_tickets = <<>>
    /\ result = EmptyDict
    /\ exc = NoException
    /\ calls = NoCalls
    /\ trace = <<>>
    /\ consulted = {}
    /\ ai_response = NoAiCall

HarnessOff == h_op = "off" /\ h_cases = <<>> /\ h_out = <<>>

Init == PipelineInit /\ HarnessOff /\ SessionManagerInit

\* faulty variant: an empty list of vulnerabilities goes on through the
\* pipeline
Extract_NoEarlyReturn ==
    /\ pc = "start"
    /\ all_vulnerabilities' = extract_all_vulnerabilities(scan_results)
    /\ result' = result
    /\ pc' = "sort"
    /\ UNCHANGED <<scan_results, store, rules, rule_file, sorted_vulnerabilities, assets,
                   idx, enriched_vulnerabilities, risk_tickets, exc, calls, trace,
                   consulted, ai_response, harness_vars, session_vars>>

\* process_scan_results, lines 146-158
Extract ==
    /\ pc = "start"
    /\ all_vulnerabilities' = extract_all_vulnerabilities(scan_results)
    /\ IF all_vulnerabilities' = <<>>
       THEN result' = CleanScanResult /\ pc' = "done"
       ELSE result' = result /\ pc' = "sort"
    /\ UNCHANGED <<scan_results, store, rules, rule_file, sorted_vulnerabilities, assets,
                   idx, enriched_vulnerabilities, risk_tickets, exc, calls, trace,
                   consulted, ai_response, harness_vars, session_vars>>

\* process_scan_results, line 162
Sort ==
    /\ pc = "sort"
    /\ sorted_vulnerabilities' = sort_vulnerabilities_by_severity(all_vulnerabilities)
    /\ pc' = "fetch"
    /\ UNCHANGED <<scan_results, store, rules, rule_file, all_vulnerabilities, assets,
                   idx, enriched_vulnerabilities, risk_tickets, result, exc, calls, trace,
                   consulted, ai_response, harness_vars, session_vars>>

\* map_all_vulnerabilities, lines 328-334: the two store reads
FetchAssets ==
    /\ pc = "fetch"
    /\ assets' = store
    /\ calls' = [calls EXCEPT !.store = @ + 2]
    /\ idx' = 1
    /\ enriched_vulnerabilities' = <<>>
    /\ pc' = IF sorted_vulnerabilities = <<>> THEN "tickets" ELSE "match"
    /\ UNCHANGED <<scan_results, store, rules, rule_file, all_vulnerabilities,
                   sorted_vulnerabilities, risk_tickets, result, exc, trace,
                   consulted, ai_response, harness_vars, session_vars>>

\* an exception leaves map_vulnerability_hybrid; nothing between it and the
\* caller of process_scan_results catches it
Raise(stage, error, read) ==
    /\ pc' = "raised"
    /\ exc' = [stage |-> stage, error |-> error, index |-> idx]
    /\ consulted' = read
    /\ UNCHANGED <<scan_results, store, rules, rule_file, all_vulnerabilities,
                   sorted_vulnerabilities, assets, idx, enriched_vulnerabilities,
                   risk_tickets, result, trace, ai_response, harness_vars, session_vars>>

\* map_vulnerability_hybrid returns matched (the asset object, or None) and
\* map_all_vulnerabilities, lines 343-351, enriches and goes to the next one;
\* ref > 0: the asset object is the document assets[ref] itself
Return(matched, ref, events, read, response) ==
    /\ enriched_vulnerabilities' =
           Append(enriched_vulnerabilities,
                  enrich_vulnerability_with_asset(sorted_vulnerabilities[idx], matched,
                                                  fetch_financial_parameters))
    /\ assets' = IF ref > 0 THEN [assets EXCEPT ![ref] = matched.asset] ELSE assets
    /\ trace' = events
    /\ consulted' = read
    /\ ai_response' = response
    /\ idx' = idx + 1
    /\ pc' = IF idx = Len(sorted_vulnerabilities) THEN "tickets" ELSE "match"
    /\ UNCHANGED <<scan_results, store, rules, rule_file, all_vulnerabilities,
                   sorted_vulnerabilities, risk_tickets, result, exc, harness_vars, session_vars>>

\* a tier returned None: on to the next read of the rules
Continue(next_pc, events, read) ==
    /\ pc' = next_pc
    /\ trace' = events
    /\ consulted' = read
    /\ ai_response' = NoAiCall
    /\ UNCHANGED <<scan_results, store, rules, rule_file, all_vulnerabilities,
                   sorted_vulnerabilities, assets, idx, enriched_vulnerabilities,
                   risk_tickets, result, exc, harness_vars, session_vars>>

\* a tier returned (matched_asset, metadata): lines 118-123 and 128-133
ReturnHit(hit, events, read) ==
    Return([status |-> "hit", asset |-> WithMapping(hit.asset, hit.metadata)],
           hit.ref, events, read, NoAiCall)

\* map_vulnerability_hybrid, line 112, then map_with_hard_rules, lines 87-93
Tier1Config ==
    /\ pc = "match"
    /\ IF assets = <<>>
       THEN /\ Return(NoResult, 0, <<"no_assets">>, {}, NoAiCall)
            /\ calls' = calls
       ELSE LET gate == HardRulesGate(rules, sorted_vulnerabilities[idx])
            IN  /\ calls' = [calls EXCEPT !.tier1 = @ + 1]
                /\ CASE gate.status = "raise" -> Raise("tier1", gate.error, {rules})
                     [] gate.status = "none" -> Continue("t2_cfg", <<"t1:none">>, {rules})
                     [] gate.status = "go" -> Continue("t1_rules", <<>>, {rules})

\* map_with_hard_rules, lines 96-124
Tier1Rules ==
    /\ pc = "t1_rules"
    /\ calls' = calls
    /\ LET scan == HardRulesScan(rules, sorted_vulnerabilities[idx], assets)
           read == consulted \cup {rules}
       IN  CASE scan.status = "raise" -> Raise("tier1", scan.error, read)
             [] scan.status = "none" -> Continue("t2_cfg", <<"t1:none">>, read)
             [] scan.status = "hit" -> ReturnHit(scan, <<"t1:hit">>, read)

\* map_with_keywords, lines 141-153
Tier2Config ==
    /\ pc = "t2_cfg"
    /\ calls' = [calls EXCEPT !.tier2 = @ + 1]
    /\ LET gate == KeywordsGate(rules, sorted_vulnerabilities[idx])
           read == consulted \cup {rules}
       IN  CASE gate.status = "raise" -> Raise("tier2", gate.error, read)
             [] gate.status = "none" -> Continue("t3_cfg", trace \o <<"t2:none">>, read)
             [] gate.status = "go" -> Continue("t2_rules", trace, read)

\* map_with_keywords, lines 155-201
Tier2Rules ==
    /\ pc = "t2_rules"
    /\ calls' = calls
    /\ LET scan == KeywordsScan(rules, sorted_vulnerabilities[idx], assets)
           read == consulted \cup {rules}
       IN  CASE scan.status = "raise" -> Raise("tier2", scan.error, read)
             [] scan.status = "none" -> Continue("t3_cfg", trace \o <<"t2:none">>, read)
             [] scan.status = "hit" -> ReturnHit(scan, trace \o <<"t2:hit">>, read)

\* replies a language model can give to the prompt, and a failing call
AiReplies ==
    {[kind |-> "raise"],
     [kind |-> "text", open |-> -1, close |-> -1, json |-> [ok |-> FALSE]],
     [kind |-> "text", open |-> 7, close |-> 2, json |-> [ok |-> FALSE]],
     [kind |-> "text", open |-> 0, close |-> 9, json |-> [ok |-> FALSE]],
     [kind |-> "text", open |-> 0, close |-> 40, json |->
         [ok |-> TRUE, obj |-> [matched |-> FALSE, asset_index |-> [int |-> TRUE, val |-> 0],
                                confidence |-> 0]]],
     [kind |-> "text", open |-> 0, close |-> 40, json |->
         [ok |-> TRUE, obj |-> [matched |-> TRUE, asset_index |-> [int |-> TRUE, val |-> -1],
                                confidence |-> 50]]],
     [kind |-> "text", open |-> 0, close |-> 40, json |->
         [ok |-> TRUE, obj |-> [matched |-> TRUE, asset_index |-> [int |-> TRUE, val |-> 3],
                                confidence |-> 70]]],
     [kind |-> "text", open |-> 0, close |-> 40, json |->
         [ok |-> TRUE, obj |-> [matched |-> TRUE, asset_index |-> [int |-> FALSE]]]],
     [kind |-> "text", open |-> 0, close |-> 40, json |->
         [ok |-> TRUE, obj |-> [asset_index |-> [int |-> TRUE, val |-> 0]]]],
     [kind |-> "text", open |-> 12, close |-> 60, json |->
         [ok |-> TRUE, obj |-> [matched |-> TRUE, asset_index |-> [int |-> TRUE, val |-> 0],
                                confidence |-> 85, reasoning |-> "payments code",
                                business_impact |-> "checkout outage"]]],
     [kind |-> "text", open |-> 0, close |-> 30, json |->
         [ok |-> TRUE, obj |-> [matched |-> TRUE, asset_index |-> [int |-> TRUE, val |-> 1]]]],
     [kind |-> "text", open |-> 0, close |-> 44, json |->
         [ok |-> TRUE, obj |-> [matched |-> TRUE, asset_index |-> [int |-> TRUE, val |-> 0],
                                confidence |-> 150]]]}

\* map_vulnerability_hybrid, lines 136-150, with ai_call the outcome of line 228
Tier3With(ai_call) ==
    /\ pc = "t3_cfg"
    /\ LET read == consulted \cup {rules}
       IN  IF ~RulesIsDict(rules)
           THEN calls' = calls /\ Raise("tier3", "AttributeError", read)
           ELSE IF ~AiFallbackEnabled(rules)
           THEN calls' = calls /\ Return(NoResult, 0, trace \o <<"t3:off">>, read, NoAiCall)
           ELSE LET ai_result == HybridTier3(sorted_vulnerabilities[idx], assets, ai_call)
                IN  /\ calls' = [calls EXCEPT !.ai = @ + 1]
                    /\ Return(ai_result, 0,
                              trace \o <<"t3:call", IF ai_result.status = "hit"
                                                    THEN "t3:hit" ELSE "t3:none">>,
                              read, ai_call)

\* the call as the source binds it
Tier3 == \E reply \in AiReplies : Tier3With(perform_ai_check(reply))

\* process_scan_results, line 175
GenerateTickets ==
    /\ pc = "tickets"
    /\ risk_tickets' = generate_all_risk_tickets(enriched_vulnerabilities)
    /\ pc' = "summary"
    /\ UNCHANGED <<scan_results, store, rules, rule_file, all_vulnerabilities,
                   sorted_vulnerabilities, assets, idx, enriched_vulnerabilities,
                   result, exc, calls, trace, consulted, ai_response, harness_vars, session_vars>>

\* process_scan_results, lines 180-199
Summarize ==
    /\ pc = "summary"
    /\ result' = FullResult(all_vulnerabilities, enriched_vulnerabilities, risk_tickets)
    /\ pc' = "done"
    /\ UNCHANGED <<scan_results, store, rules, rule_file, all_vulnerabilities,
                   sorted_vulnerabilities, assets, idx, enriched_vulnerabilities,
                   risk_tickets, exc, calls, trace, consulted, ai_response, harness_vars, session_vars>>

\* perform_security_check, main.py lines 165-174: the result is not None and
\* the financial section is generated for the report; an exception is caught
\* and logged there
Report ==
    /\ pc = "done"
    /\ pc' = "reported"
    /\ exc' = IF generate_financial_report_markdown(result).status = "raise"
              THEN [stage |-> "report",
                    error |-> generate_financial_report_markdown(result).error,
                    key |-> generate_financial_report_markdown(result).key]
              ELSE exc
    /\ UNCHANGED <<scan_results, store, rules, rule_file, all_vulnerabilities,
                   sorted_vulnerabilities, assets, idx, enriched_vulnerabilities,
                   risk_tickets, result, calls, trace, consulted, ai_response,
                   harness_vars, session_vars>>

\* rule_mapper.reload_rules(), from another thread, while the run is under way
Reload ==
    /\ pc \notin {"done", "raised", "reported"}
    /\ \E file \in RuleFiles :
          /\ rule_file' = file
          /\ rules' = _load_rules(file)
    /\ UNCHANGED <<scan_results, store, pc, all_vulnerabilities, sorted_vulnerabilities,
                   assets, idx, enriched_vulnerabilities, risk_tickets, result, exc,
                   calls, trace, consulted, ai_response, harness_vars, session_vars>>

Next ==
    \/ Extract
    \/ Sort
    \/ FetchAssets
    \/ Tier1Config
    \/ Tier1Rules
    \/ Tier2Config
    \/ Tier2Rules
    \/ Tier3
    \/ GenerateTickets
    \/ Summarize
    \/ Report
    \/ Reload

Spec == Init /\ [][Next]_vars

\* the pipeline with the AI capability bound so that the call of line 228
\* returns: the reply reaches the parsing of lines 232-252
Tier3Answered == \E reply \in AiReplies : Tier3With(reply)

NextAI ==
    \/ Extract
    \/ Sort
    \/ FetchAssets
    \/ Tier1Config
    \/ Tier1Rules
    \/ Tier2Config
    \/ Tier2Rules
    \/ Tier3Answered
    \/ GenerateTickets
    \/ Summarize
    \/ Report

SpecAI == Init /\ [][NextAI]_vars

-----------------------------------------------------------------------------
(* The ticket functions on their own: sort_vulnerabilities_by_severity,    *)
(* generate_risk_ticket and generate_all_risk_tickets applied to lists of  *)
(* findings matched (or not) to inventory rows.                            *)

\* longest list handed to the functions
MaxBatch == 3

NoAsset == <<>>

\* a finding, the asset id it was matched to in which inventory, and the
\* has_pii_data parameter
HarnessCases ==
    {[finding |-> 1, asset_id |-> <<"A","P","P","-","0","0","1">>, inv |-> 2, pii |-> FALSE],
     [finding |-> 5, asset_id |-> <<"A","P","P","-","0","0","1">>, inv |-> 2, pii |-> FALSE],
     [finding |-> 2, asset_id |-> <<"A","P","P","-","0","0","2">>, inv |-> 2, pii |-> FALSE],
     [finding |-> 2, asset_id |-> NoAsset, inv |-> 2, pii |-> FALSE],
     [finding |-> 3, asset_id |-> <<"A","P","P","-","0","0","3">>, inv |-> 2, pii |-> TRUE],
     [finding |-> 4, asset_id |-> NoAsset, inv |-> 1, pii |-> FALSE],
     [finding |-> 4, asset_id |-> <<"A","P","P","-","0","0","2">>, inv |-> 3, pii |-> TRUE],
     [finding |-> 1, asset_id |-> NoAsset, inv |-> 3, pii |-> FALSE]}

\* the finding as extract_all_vulnerabilities delivers it
CaseFinding(c) == ("source_tool" :> "semgrep") @@ FindingPool[c.finding]

\* the asset map_vulnerability_hybrid returns for a Tier 1 match of the case
CaseMatched(found) ==
    IF found.found
    THEN [status |-> "hit",
          asset |-> WithMapping(found.asset,
                                [confidence |-> 100, match_reason |-> "case",
                                 tier |-> "hard_rules"])]
    ELSE NoResult

CaseMatch(c) ==
    IF c.asset_id = NoAsset THEN NoResult
    ELSE CaseMatched(_find_asset_by_id(c.asset_id, Inventories[c.inv]))

CaseEnriched(c) ==
    enrich_vulnerability_with_asset(CaseFinding(c), CaseMatch(c),
        [fetch_financial_parameters EXCEPT !.has_pii_data = c.pii])

\* the arguments of the functions
SortInput == [k \in 1..Len(h_cases) |-> CaseFinding(h_cases[k])]

TicketInput == [k \in 1..Len(h_cases) |-> CaseEnriched(h_cases[k])]

PipelineOff ==
    /\ scan_results = <<>>
    /\ store = <<>>
    /\ rule_file = "missing"
    /\ rules = _load_rules(rule_file)
    /\ pc = "off"
    /\ all_vulnerabilities = <<>>
    /\ sorted_vulnerabilities = <<>>
    /\ assets = <<>>
    /\ idx = 0
    /\ enriched_vulnerabilities = <<>>
    /\ risk_tickets = <<>>
    /\ result = EmptyDict
    /\ exc = NoException
    /\ calls = NoCalls
    /\ trace = <<>>
    /\ consulted = {}
    /\ ai_response = NoAiCall

InitTickets ==
    /\ PipelineOff
    /\ SessionManagerInit
    /\ h_cases \in ListsUpTo(HarnessCases, MaxBatch)
    /\ h_op = "ready"
    /\ h_out = <<>>

ApplySort ==
    /\ h_op = "ready"
    /\ h_out' = sort_vulnerabilities_by_severity(SortInput)
    /\ h_op' = "sorted"
    /\ UNCHANGED <<h_cases, pipeline_vars, session_vars>>

ApplyGenerateTicket ==
    /\ h_op = "ready"
    /\ h_cases # <<>>
    /\ h_out' = <<generate_risk_ticket(1, TicketInput[1], TicketInput[1])>>
    /\ h_op' = "ticket"
    /\ UNCHANGED <<h_cases, pipeline_vars, session_vars>>

ApplyGenerateAll ==
    /\ h_op = "ready"
    /\ h_out' = generate_all_risk_tickets(TicketInput)
    /\ h_op' = "tickets"
    /\ UNCHANGED <<h_cases, pipeline_vars, session_vars>>

NextTickets ==
    \/ ApplySort
    \/ ApplyGenerateTicket
    \/ ApplyGenerateAll

SpecTickets == InitTickets /\ [][NextTickets]_vars

-----------------------------------------------------------------------------
(* Properties.                                                             *)

\* between two matches: trace, consulted and ai_response describe the match of
\* the vulnerability that was enriched last
Returned ==
    pc \in {"match", "tickets", "summary", "done"} /\ enriched_vulnerabilities # <<>>

LastVulnerability == sorted_vulnerabilities[Len(enriched_vulnerabilities)]

LastEnriched == enriched_vulnerabilities[Len(enriched_vulnerabilities)]

FilePath(vulnerability) == Lower(Get(vulnerability, "file", <<>>))

\* C1: an exception raised while one vulnerability is matched or its ticket
\* is computed does not leave process_scan_results: the run never ends in an
\* exception, and it ends with a well-formed result holding one ticket per
\* finding.
C1_BatchSurvivesFailure ==
    /\ pc # "raised"
    /\ pc = "done" =>
          /\ {"summary", "risk_tickets", "vulnerabilities_processed", "assets_mapped"}
                \subseteq DOMAIN result
          /\ Len(result.risk_tickets) = Len(all_vulnerabilities)

\* the tier_config.use_ai_fallback flag of the rules in force
AiFlagOn == rules.type = "dict" /\ Get(Get(rules, "tier_config", <<>>), "use_ai_fallback", TRUE)

C2_Step ==
    /\ calls'.tier2 > calls.tier2 => trace = <<"t1:none">>
    /\ calls'.ai > calls.ai =>
          /\ calls'.ai = calls.ai + 1
          /\ trace = <<"t1:none", "t2:none">>
          /\ AiFlagOn

C2_State ==
    /\ Cardinality({i \in 1..Len(trace) : trace[i] = "t3:call"}) <= 1
    /\ \A i \in 1..Len(trace) :
          trace[i] = "t3:call" => \A j \in 1..(i - 1) : trace[j] \in {"t1:none", "t2:none"}
    /\ calls.ai <= Len(enriched_vulnerabilities)

\* C2: Tier 2 is entered only when Tier 1 returned no result for the
\* vulnerability; the AI capability is called only when Tier 1 and Tier 2
\* both returned no result and use_ai_fallback is on; it is called at most
\* once per vulnerability and never after a tier matched.
C2_TierOrder == []C2_State /\ [][C2_Step]_vars

\* an AI call made for a vulnerability both rule tiers passed on
C2_Witness ==
    /\ calls.ai >= 1
    /\ calls.tier2 >= 1
    /\ trace = <<"t1:none", "t2:none", "t3:call", "t3:none">>

\* the enriched vulnerability carries the inventory record of asset_id as a
\* Tier 1 match
ReturnedByTier1(enriched, asset_id, inventory) ==
    /\ enriched.matched_asset.present
    /\ enriched.matched_asset.tier = "hard_rules"
    /\ enriched.matched_asset.confidence = 100
    /\ _find_asset_by_id(asset_id, inventory).found
    /\ enriched.matched_asset.id = _find_asset_by_id(asset_id, inventory).asset._id
    /\ enriched.matched_asset.asset_name =
          Get(_find_asset_by_id(asset_id, inventory).asset, "extracted_asset_name",
              _find_asset_by_id(asset_id, inventory).asset.filename)

\* some keyword entry of R for an asset other than asset_id matches the text
KeywordsForOther(R, vulnerability, asset_id) ==
    \E j \in 1..Len(KeywordMappings(R)) :
        /\ Lower(KeywordMappings(R)[j].asset_id) # Lower(asset_id)
        /\ KeywordMappings(R)[j].is_list
        /\ MatchedKeywords(KeywordMappings(R)[j].keywords, VulnText(vulnerability)) # <<>>

\* C3 as stated: whenever the file path contains the substring of a
\* configured path rule for asset A and the text contains keywords
\* configured for another asset, the match returns A with tier hard_rules.
C3_PathRuleAlwaysWins ==
    \A R \in consulted :
        (Returned /\ consulted = {R} /\ RulesIsDict(R)) =>
            \A i \in 1..Len(FlatRules(R)) :
                (/\ Contains(Lower(FlatRules(R)[i].rule_path), FilePath(LastVulnerability))
                 /\ KeywordsForOther(R, LastVulnerability, FlatRules(R)[i].asset_id))
                => ReturnedByTier1(LastEnriched, FlatRules(R)[i].asset_id, assets)

\* the first rule of R, in table order, whose substring is in the path and
\* whose asset id the inventory resolves (0: none)
FirstPathRule(R, file_path, inventory) ==
    FirstOf({i \in 1..Len(FlatRules(R)) :
               /\ Contains(Lower(FlatRules(R)[i].rule_path), file_path)
               /\ _find_asset_by_id(FlatRules(R)[i].asset_id, inventory).found})

C3_Step ==
    (/\ pc = "t1_rules"
     /\ pc' # "t1_rules"
     /\ RulesIsDict(rules)
     /\ FirstPathRule(rules, FilePath(sorted_vulnerabilities[idx]), assets) # 0)
    => /\ pc' \in {"match", "tickets"}
       /\ Len(enriched_vulnerabilities') = idx
       /\ ReturnedByTier1(enriched_vulnerabilities'[idx],
              FlatRules(rules)[FirstPathRule(rules, FilePath(sorted_vulnerabilities[idx]),
                                             assets)].asset_id,
              assets)

\* C3 amended: when Tier 1 is enabled and reaches its table, and the table
\* holds a rule whose substring is in the file path and whose asset id the
\* inventory resolves, map_vulnerability_hybrid returns the asset of the first
\* such rule in table order with tier hard_rules and confidence 100, whatever
\* keywords match for another asset.
C3_FirstResolvablePathRuleWins == [][C3_Step]_vars

\* a Tier 1 match for a vulnerability whose text holds another asset's keywords
C3_Witness ==
    /\ Returned
    /\ trace = <<"t1:hit">>
    /\ \E R \in consulted :
          /\ RulesIsDict(R)
          /\ KeywordsForOther(R, LastVulnerability, LastEnriched.matched_asset.reasoning.asset_id)

\* C4: every tier flag and rule table read during one match comes from one
\* loaded rule set.
C4_OneRuleSetPerMatch == Cardinality(consulted) <= 1

\* the replies and failures for which the AI tier has to report no match
NoMatchReply(r, n) ==
    \/ r.kind = "raise"
    \/ /\ r.kind = "text"
       /\ \/ r.open = -1
          \/ r.close < r.open
          \/ ~r.json.ok
          \/ /\ r.json.ok
             /\ \/ ~Get(r.json.obj, "matched", FALSE)
                \/ /\ "asset_index" \in DOMAIN r.json.obj
                   /\ r.json.obj.asset_index.int
                   /\ \/ r.json.obj.asset_index.val < 0
                      \/ r.json.obj.asset_index.val >= n

UnmappedContext ==
    [hourly_cost |-> DefaultHourlyCost, rto_hours |-> DefaultRtoHours,
     has_pii_data |-> FALSE, asset_criticality |-> Low]

\* C5: when the AI call raises, or its reply holds no JSON object, malformed
\* JSON, matched = false or an asset_index outside the asset list, the match
\* returns None without an error: the vulnerability is enriched as unmapped
\* and the batch goes on.
C5_AiFailureIsNoMatch ==
    /\ [](( /\ Returned
            /\ ai_response.kind # "no_call"
            /\ NoMatchReply(ai_response, Len(assets)))
          => /\ ~LastEnriched.matched_asset.present
             /\ LastEnriched.financial_context = UnmappedContext)
    /\ [][calls'.ai > calls.ai =>
             /\ pc' \in {"match", "tickets"}
             /\ exc' = NoException
             /\ Len(enriched_vulnerabilities') = Len(enriched_vulnerabilities) + 1]_vars

\* a well-formed reply naming an index past the asset list, absorbed
C5_Witness ==
    /\ pc = "done"
    /\ ai_response.kind = "text"
    /\ ai_response.json.ok
    /\ Get(ai_response.json.obj, "matched", FALSE)
    /\ ai_response.json.obj.asset_index.int
    /\ ai_response.json.obj.asset_index.val >= Len(assets)
    /\ ~LastEnriched.matched_asset.present
    /\ Len(result.risk_tickets) = Len(all_vulnerabilities)

\* C6: while the rule file is missing or malformed the mapper holds the
\* default rule set; a match made under it gets no result from Tier 1 and
\* Tier 2 and raises nothing, and the run ends with one ticket per finding.
C6_FallbackRulesDegradeGracefully ==
    /\ rule_file \in {"missing", "invalid_json"} => rules = DefaultRules
    /\ consulted = {DefaultRules} =>
          /\ pc # "raised"
          /\ \A i \in 1..Len(trace) : trace[i] \notin {"t1:hit", "t2:hit"}
    /\ pc = "done" => Len(risk_tickets) = Len(all_vulnerabilities)

NoEssentialFindings ==
    \A k \in 1..Len(scan_results) :
        ~(/\ "essential" \in DOMAIN scan_results[k].result
          /\ scan_results[k].result.essential.type = "list"
          /\ scan_results[k].result.essential.items # <<>>)

\* C7: when no tool result holds a non-empty "essential" list,
\* process_scan_results returns total_vulnerabilities = 0, no ticket,
\* vulnerabilities_processed = 0 and assets_mapped = 0, without raising and
\* without a call to the store, the rule matcher or the AI capability.
C7_CleanScanShortCircuit ==
    (pc # "off" /\ NoEssentialFindings) =>
        /\ pc \in {"start", "done", "reported"}
        /\ calls = NoCalls
        /\ pc \in {"done", "reported"} =>
              /\ result.summary.total_vulnerabilities = 0
              /\ result.risk_tickets = <<>>
              /\ result.vulnerabilities_processed = 0
              /\ result.assets_mapped = 0

\* a scan whose first tool gave a text and whose second gave no findings
C7_Witness ==
    /\ pc = "done"
    /\ NoEssentialFindings
    /\ "essential" \in DOMAIN scan_results[1].result
    /\ scan_results[1].result.essential.type = "str"
    /\ result.summary.total_vulnerabilities = 0

\* the permutations of 1..n
IndexPermutations(n) == {p \in [1..n -> 1..n] : \A i, j \in 1..n : p[i] = p[j] => i = j}

\* C8: generate_all_risk_tickets returns one ticket per enriched
\* vulnerability, the tickets of the input in an order that is non-increasing
\* in the pair (severity_weight, financial_exposure.total) compared
\* lexicographically, and the ticket at position k has ticket_number k.
C8_TicketsSortedAndNumbered ==
    h_op = "tickets" =>
        /\ Len(h_out) = Len(TicketInput)
        /\ \E p \in IndexPermutations(Len(TicketInput)) :
              \A k \in 1..Len(h_out) :
                  h_out[k] = generate_risk_ticket(k, TicketInput[p[k]], TicketInput[p[k]])
        /\ \A k \in 1..(Len(h_out) - 1) :
              \/ h_out[k].severity_weight > h_out[k + 1].severity_weight
              \/ /\ h_out[k].severity_weight = h_out[k + 1].severity_weight
                 /\ h_out[k].financial_exposure.total >= h_out[k + 1].financial_exposure.total
        /\ \A k \in 1..Len(h_out) : h_out[k].ticket_number = k

\* three tickets whose input order was increasing in weight, then in total
C8_Witness ==
    /\ h_op = "tickets"
    /\ Len(h_out) >= 3
    /\ get_severity_weight(TicketInput[1].severity) < get_severity_weight(TicketInput[2].severity)
    /\ h_out[1].severity_weight = h_out[2].severity_weight
    /\ h_out[1].financial_exposure.total > h_out[2].financial_exposure.total
    /\ h_out[2].severity_weight > h_out[3].severity_weight

SeverityWeightOf(vulnerability) == get_severity_weight(Get(vulnerability, "severity", <<>>))

\* C9: sort_vulnerabilities_by_severity returns a permutation of its input
\* in non-increasing severity weight, and two vulnerabilities of equal weight
\* keep the order they had in the input.
C9_StableSeveritySort ==
    h_op = "sorted" =>
        /\ Len(h_out) = Len(SortInput)
        /\ \E p \in IndexPermutations(Len(SortInput)) :
              /\ \A k \in 1..Len(h_out) : h_out[k] = SortInput[p[k]]
              /\ \A k, l \in 1..Len(h_out) :
                    k < l =>
                       /\ SeverityWeightOf(h_out[k]) >= SeverityWeightOf(h_out[l])
                       /\ SeverityWeightOf(h_out[k]) = SeverityWeightOf(h_out[l])
                             => p[k] < p[l]

\* two different findings of equal weight behind a lighter one
C9_Witness ==
    /\ h_op = "sorted"
    /\ Len(h_out) = 3
    /\ SortInput[1] = h_out[3]
    /\ h_out[1] # h_out[2]
    /\ SeverityWeightOf(h_out[1]) = SeverityWeightOf(h_out[2])
    /\ SeverityWeightOf(h_out[3]) < SeverityWeightOf(h_out[2])

\* the financial data _find_asset_by_id extracted from the matched row
SuppliedBy(c) == Get(CaseMatch(c).asset, "extracted_financial_data", <<>>)

\* C10: when the matched asset row supplied hourly_cost h and rto_hours r,
\* the ticket of generate_risk_ticket has direct_loss h*r, total 25*h*r plus
\* the breach penalty only when the PII flag is set, and a ROSI computed
\* against the fix cost 5000: the estimated RTO does not replace a supplied r.
C10_SuppliedRtoIsUsed ==
    (/\ h_op = "ticket"
     /\ CaseMatch(h_cases[1]).status = "hit"
     /\ {"hourly_cost", "rto_hours"} \subseteq DOMAIN SuppliedBy(h_cases[1]))
    => /\ h_out[1].financial_exposure.direct_loss =
             SuppliedBy(h_cases[1]).hourly_cost * SuppliedBy(h_cases[1]).rto_hours
       /\ h_out[1].financial_exposure.total =
             25 * SuppliedBy(h_cases[1]).hourly_cost * SuppliedBy(h_cases[1]).rto_hours
             + (IF h_cases[1].pii THEN 1000000 ELSE 0)
       /\ h_out[1].rosi.fix_cost = 5000
       /\ h_out[1].rosi.net_benefit = h_out[1].financial_exposure.total - 5000
       /\ h_out[1].rosi.rosi_percentage_x100 =
             2 * (h_out[1].financial_exposure.total - 5000)

-----------------------------------------------------------------------------
(* enrich_vulnerability_with_asset on its own.                             *)

\* an inventory whose cost and RTO cells parse, do not parse or are missing
DocCells ==
    [_id |-> "doc-5", filename |-> <<"c","e","l","l","s",".","x","l","s","x">>,
     data |-> [type |-> "dict", d |-> [sheets |-> <<
        [rows |-> << << <<"A","s","s","e","t"," ","I","D">>, <<"A","s","s","e","t"," ","N","a","m","e">>, <<"H","o","u","r","l","y"," ","C","o","s","t">>, <<"R","T","O">> >>,
                     << <<"A","P","P","-","0","0","1">>, <<"P","a","y","m","e","n","t","s">>, <<"$","5","0",",","0","0","0">>, <<"4"," ","h","o","u","r","s">> >>,
                     << <<"A","P","P","-","0","0","4">>, <<"L","e","d","g","e","r">>, <<"1",",","2","0","0">>, <<"s","o","o","n">> >>,
                     << <<"A","P","P","-","0","0","5">>, <<"A","r","c","h","i","v","e">>, <<"n","/","a">>, <<"8"," ","h","o","u","r">> >>,
                     << <<"A","P","P","-","0","0","6">>, <<"W","i","k","i">> >>,
                     << <<"A","P","P","-","0","0","7">>, <<"M","a","i","l">>, <<>>, <<>> >> >>] >>]]]

\* the value a cell gives, as read off the sheet by hand
Given(n) == [given |-> TRUE, val |-> n]

NotGiven == [given |-> FALSE]

\* the asset id a vulnerability was matched to, the inventory, and the cost
\* and RTO the matched row or document gives
EnrichCases ==
    {[asset_id |-> NoAsset, inventory |-> <<DocCells>>, cost |-> NotGiven, rto |-> NotGiven],
     [asset_id |-> <<"A","P","P","-","0","0","1">>, inventory |-> <<DocCells>>, cost |-> Given(50000), rto |-> Given(4)],
     [asset_id |-> <<"a","p","p","-","0","0","4">>, inventory |-> <<DocCells>>, cost |-> Given(1200), rto |-> NotGiven],
     [asset_id |-> <<"A","P","P","-","0","0","5">>, inventory |-> <<DocCells>>, cost |-> NotGiven, rto |-> Given(8)],
     [asset_id |-> <<"A","P","P","-","0","0","6">>, inventory |-> <<DocCells>>, cost |-> NotGiven, rto |-> NotGiven],
     [asset_id |-> <<"A","P","P","-","0","0","7">>, inventory |-> <<DocCells>>, cost |-> NotGiven, rto |-> NotGiven],
     [asset_id |-> <<"A","P","P","-","0","0","2">>, inventory |-> <<DocDict, DocCells>>, cost |-> NotGiven, rto |-> NotGiven],
     [asset_id |-> <<"A","P","P","-","0","0","3">>, inventory |-> <<DocList, DocSheet>>, cost |-> NotGiven, rto |-> NotGiven],
     [asset_id |-> <<"A","P","P","-","0","0","3">>, inventory |-> <<DocSheet, DocList>>, cost |-> NotGiven, rto |-> Given(2)],
     [asset_id |-> <<"A","P","P","-","0","0","9">>, inventory |-> <<DocCells>>, cost |-> NotGiven, rto |-> NotGiven]}

\* what map_vulnerability_hybrid hands to the enrichment for the case
EnrichAsset(c) ==
    IF c.asset_id = NoAsset THEN NoResult
    ELSE CaseMatched(_find_asset_by_id(c.asset_id, c.inventory))

-----------------------------------------------------------------------------
(* The functions on their own: h_op names the function that is called,     *)
(* h_cases holds its arguments and h_out, empty before the call, holds the  *)
(* returned value afterwards.                                               *)

\* a rule file with a keyword table of ties, long matches and an asset id the
\* inventories do not hold
RulesC ==
    [type |-> "dict",
     path_rules |-> [rules |-> <<
         [category |-> "WEB", is_dict |-> TRUE,
          mappings |-> << [rule_path |-> <<"l","i","b","/">>, asset_id |-> <<"A","P","P","-","0","0","3">>],
                          [rule_path |-> <<"X",".","p","y">>, asset_id |-> <<"a","p","p","-","0","0","1">>],
                          [rule_path |-> <<"S","R","C">>, asset_id |-> <<"A","P","P","-","0","0","2">>] >>] >>],
     keyword_rules |-> [mappings |-> <<
         [asset_id |-> <<"A","P","P","-","0","0","9">>, is_list |-> TRUE, keywords |-> << <<"x","s","s">>, <<"i","n","j","e","c","t","i","o","n">> >>],
         [asset_id |-> <<"A","P","P","-","0","0","1">>, is_list |-> TRUE, keywords |-> << <<"X","S","S">> >>],
         [asset_id |-> <<"A","P","P","-","0","0","3">>, is_list |-> TRUE, keywords |-> << <<"i","n","j","e","c","t","i","o","n">>, <<"s","q","l">> >>],
         [asset_id |-> <<"A","P","P","-","0","0","2">>, is_list |-> TRUE, keywords |-> << <<"s">>, <<"q">>, <<"l">>, <<"i">> >>] >>],
     tier_config |-> [use_hard_rules |-> TRUE,
                      use_keyword_matching |-> TRUE,
                      use_ai_fallback |-> FALSE]]

\* the arguments of the functions: whole dollars for the amounts, severity
\* texts as scanners and users write them, the ticket lists of the generator,
\* rule sets, findings and inventories
InitFunctions ==
    /\ PipelineOff
    /\ SessionManagerInit
    /\ h_out = <<>>
    /\ \/ /\ h_op = "calculate_total_impact"
          /\ h_cases \in [direct_loss : {0, 1, 3, 7, 25, 24000, 40000, 72000, 200000,
                                         1234567, 16800000, 85000000},
                          has_pii_breach : BOOLEAN]
       \/ /\ h_op = "calculate_rosi"
          /\ h_cases \in
                [total_risk : {0, 3, 4, 5, 32, 33, 101, 176, 177, 303, 304, 801, 805, 1616, 1617},
                 fix_cost : {3, 16, 800}]
                \cup [total_risk : {0, 5000, 5001, 10000, 10001, 55000, 55001, 505000, 505001,
                                    2000000, 3030000, 3030001, 5000000},
                      fix_cost : {5000, 30000}]
                \cup [total_risk : {0, 100, 5000}, fix_cost : {-100, 0}]
       \/ /\ h_op = "get_severity_weight"
          /\ h_cases \in {<<"C","R","I","T","I","C","A","L">>, <<"c","r","i","t","i","c","a","l">>, <<" ","H","i","g","h"," ">>, <<"h","i","g","h","-","c","r","i","t","i","c","a","l">>, <<"M","O","D","E","R","A","T","E">>,
                          <<"m","e","d","i","u","m">>, <<"M","e","d","i","u","m"," ","t","o"," ","l","o","w">>, <<"l","o","w">>, <<"W","A","R","N","I","N","G">>, <<"i","n","f","o">>,
                          <<"i","n","f","o","r","m","a","t","i","o","n","a","l"," ","w","a","r","n","i","n","g">>, <<>>, <<"n","o","n","e">>, <<"C","r","i","t","i","c","a","l"," ","I","s","s","u","e">>, <<"e","r","r","o","r">>,
                          <<"L","O","W","H","I","G","H">>, <<"c","r","i","t">>, <<"H"," ","I"," ","G"," ","H">>, <<" ","U","N","K","N","O","W","N">>, <<"I","n","f","o","/","L","o","w">>}
       \/ /\ h_op = "calculate_summary_statistics"
          /\ h_cases \in {generate_all_risk_tickets([k \in 1..Len(cs) |-> CaseEnriched(cs[k])]) :
                             cs \in ListsUpTo(HarnessCases, MaxBatch)}
       \/ /\ h_op \in {"map_with_hard_rules", "map_with_keywords"}
          /\ h_cases \in
                [rules : {DefaultRules, RulesA, RulesB, RulesC, RulesNotAnObject,
                          [RulesC EXCEPT !.tier_config.use_keyword_matching = FALSE,
                                         !.tier_config.use_hard_rules = FALSE]},
                 vulnerability : {FindingPool[i] : i \in 1..Len(FindingPool)},
                 assets : {Inventories[j] : j \in 1..Len(Inventories)}]
       \/ /\ h_op = "enrich_vulnerability_with_asset"
          /\ h_cases \in
                [matched : EnrichCases,
                 vulnerability : {CaseFinding([finding |-> i]) : i \in {1, 2, 3}},
                 has_pii_data : BOOLEAN]
       \/ /\ h_op = "estimate_rto_from_severity"
          /\ h_cases \in
                [severity : {<<"C","R","I","T","I","C","A","L">>, <<"C","r","i","t","i","c","a","l"," ","I","s","s","u","e">>, <<"h","i","g","h">>, <<" ","H","i","g","h"," ">>, <<"M","E","D","I","U","M">>,
                             <<"m","o","d","e","r","a","t","e">>, <<"L","O","W">>, <<"w","a","r","n","i","n","g">>, <<"I","n","f","o">>, <<"n","o","n","e">>, <<>>,
                             <<"h","i","g","h","-","c","r","i","t","i","c","a","l">>, <<"L","O","W","H","I","G","H">>, <<"U","N","K","N","O","W","N">>},
                 criticality : {[text |-> <<"c","r","i","t","i","c","a","l">>, quarters |-> 2],
                                [text |-> <<"C","r","i","t","i","c","a","l">>, quarters |-> 2],
                                [text |-> <<"H","I","G","H">>, quarters |-> 3],
                                [text |-> <<"h","i","g","h">>, quarters |-> 3],
                                [text |-> <<"m","e","d","i","u","m">>, quarters |-> 4],
                                [text |-> <<"L","o","w">>, quarters |-> 6],
                                [text |-> <<"l","o","w">>, quarters |-> 6],
                                [text |-> <<>>, quarters |-> 4],
                                [text |-> <<"u","n","k","n","o","w","n">>, quarters |-> 4],
                                [text |-> <<"l","o","w"," ">>, quarters |-> 4],
                                [text |-> <<"v","e","r","y"," ","h","i","g","h">>, quarters |-> 4]}]
       \/ /\ h_op = "_find_asset_by_id"
          /\ h_cases \in
                [asset_id : {<<"A","P","P","-","0","0","1">>, <<"a","p","p","-","0","0","2">>, <<"A","p","p","-","0","0","3">>, <<"A","P","P","-","0","0","9">>, <<" ","a","p","p","-","0","0","1">>, <<>>},
                 assets : ListsUpTo({DocSheet, DocNoTable, DocDict, DocList}, 2)]

\* one call: the function named by h_op returns value
ApplyFunction(op, value) ==
    /\ h_op = op
    /\ h_out = <<>>
    /\ h_out' = <<value>>
    /\ UNCHANGED <<h_op, h_cases, pipeline_vars, session_vars>>

NextFunctions ==
    \/ ApplyFunction("calculate_total_impact",
                     calculate_total_impact(h_cases.direct_loss, h_cases.has_pii_breach))
    \/ ApplyFunction("calculate_rosi", calculate_rosi(h_cases.total_risk, h_cases.fix_cost))
    \/ ApplyFunction("get_severity_weight", get_severity_weight(h_cases))
    \/ ApplyFunction("calculate_summary_statistics",
                     calculate_summary_statistics(h_cases))
    \/ ApplyFunction("map_with_hard_rules",
                     map_with_hard_rules(h_cases.rules, h_cases.rules,
                                         h_cases.vulnerability, h_cases.assets))
    \/ ApplyFunction("map_with_keywords",
                     map_with_keywords(h_cases.rules, h_cases.rules,
                                       h_cases.vulnerability, h_cases.assets))
    \/ ApplyFunction("enrich_vulnerability_with_asset",
                     enrich_vulnerability_with_asset(
                         h_cases.vulnerability, EnrichAsset(h_cases.matched),
                         [fetch_financial_parameters EXCEPT
                             !.has_pii_data = h_cases.has_pii_data]))
    \/ ApplyFunction("estimate_rto_from_severity",
                     estimate_rto_from_severity(h_cases.severity, h_cases.criticality.text))
    \/ ApplyFunction("_find_asset_by_id",
                     _find_asset_by_id(h_cases.asset_id, h_cases.assets))

SpecFunctions == InitFunctions /\ [][NextFunctions]_vars

\* the call of function op has returned
Called(op) == h_op = op /\ h_out # <<>>

\* C11: for every non-negative direct loss D in whole dollars and PII flag p,
\* calculate_total_impact returns direct_loss D, indirect_loss 24*D,
\* breach_penalty 1000000 if p else 0, and total_impact 25*D + breach_penalty,
\* the sum of the three.
C11_TotalImpactIs25TimesDirectLoss ==
    Called("calculate_total_impact") =>
        /\ h_out[1].direct_loss = h_cases.direct_loss
        /\ h_out[1].indirect_loss = 24 * h_cases.direct_loss
        /\ h_out[1].breach_penalty = (IF h_cases.has_pii_breach THEN 1000000 ELSE 0)
        /\ h_out[1].total_impact = 25 * h_cases.direct_loss + h_out[1].breach_penalty
        /\ h_out[1].total_impact =
              h_out[1].direct_loss + h_out[1].indirect_loss + h_out[1].breach_penalty

\* a direct loss that is no multiple of 4, with the PII penalty
C11_Witness ==
    /\ Called("calculate_total_impact")
    /\ h_cases.direct_loss % 4 = 3
    /\ h_cases.direct_loss > 1000000
    /\ h_cases.has_pii_breach

\* the recommendation the strict thresholds give for a percentage x / y
RecommendationAt(x, y) ==
    IF x > 10000 * y THEN "CRITICAL INVESTMENT - Immediate action required"
    ELSE IF x > 1000 * y THEN "HIGH PRIORITY - Strong financial justification"
    ELSE IF x > 100 * y THEN "RECOMMENDED - Positive return on investment"
    ELSE IF x > 0 THEN "CONSIDER - Marginal positive return"
    ELSE "LOW PRIORITY - Cost exceeds immediate risk"

\* (T - F) * 100 / F has at most two decimals: in hundredths it is the integer q
ExactPercentage(q, net_benefit, fix_cost) ==
    /\ ((net_benefit % fix_cost) * 10000) % fix_cost = 0
    /\ q = (net_benefit \div fix_cost) * 10000
           + ((net_benefit % fix_cost) * 10000) \div fix_cost

\* q hundredths is (T - F) * 100 / F rounded to two decimals, a tie to the even
\* hundredth: d2 is twice the distance of the fractional parts, times F
NearestHundredth(q, d2, fix_cost) ==
    /\ d2 \in (0 - fix_cost)..fix_cost
    /\ (d2 = fix_cost \/ d2 = 0 - fix_cost) => q % 2 = 0

RoundedPercentage(q, net_benefit, fix_cost) ==
    NearestHundredth(q,
        2 * ((q - (net_benefit \div fix_cost) * 10000) * fix_cost
             - (net_benefit % fix_cost) * 10000),
        fix_cost)

SeverityGroups ==
    << {<<"c","r","i","t","i","c","a","l">>}, {<<"h","i","g","h">>}, {<<"m","e","d","i","u","m">>, <<"m","o","d","e","r","a","t","e">>}, {<<"l","o","w">>, <<"w","a","r","n","i","n","g">>}, {<<"i","n","f","o">>} >>

SeverityGroupWeights == <<10, 7, 4, 2, 1>>

\* the groups with a keyword that occurs in the text, whatever the case
GroupsIn(text) ==
    {g \in 1..Len(SeverityGroups) : \E k \in SeverityGroups[g] : Contains(k, Lower(text))}

\* C13: get_severity_weight returns the weight of the first keyword group, in
\* the order CRITICAL(10), HIGH(7), MEDIUM or MODERATE(4), LOW or WARNING(2),
\* INFO(1), that occurs as a case-insensitive substring of the text, and 0 when
\* none occurs; the result is one of 0, 1, 2, 4, 7, 10 for every text.
C13_FirstSeverityGroupWins ==
    Called("get_severity_weight") =>
        /\ h_out[1] \in {0, 1, 2, 4, 7, 10}
        /\ GroupsIn(h_cases) = {} => h_out[1] = 0
        /\ GroupsIn(h_cases) # {} =>
              h_out[1] = SeverityGroupWeights[FirstOf(GroupsIn(h_cases))]

\* a text in mixed case that holds keywords of two groups
C13_Witness ==
    /\ Called("get_severity_weight")
    /\ Cardinality(GroupsIn(h_cases)) = 2
    /\ h_cases # Lower(h_cases)
    /\ h_cases # Upper(h_cases)
    /\ h_out[1] = 4

\* the sum of f over the index set S
RECURSIVE TotalOf(_, _)
TotalOf(f, S) ==
    IF S = {} THEN 0
    ELSE f[CHOOSE i \in S : TRUE] + TotalOf(f, S \ {CHOOSE i \in S : TRUE})

\* C14: for a non-empty ticket list calculate_summary_statistics returns
\* total_vulnerabilities = the number of tickets, total_financial_exposure =
\* the sum of the tickets' totals, total_fix_cost = the sum of their fix costs,
\* net_benefit = total exposure - total fix cost, and a severity_breakdown
\* whose counts sum to the number of tickets.
C14_SummaryAddsUp ==
    (Called("calculate_summary_statistics") /\ h_cases # <<>>) =>
        /\ h_out[1].total_vulnerabilities = Len(h_cases)
        /\ h_out[1].total_financial_exposure =
              TotalOf([i \in DOMAIN h_cases |-> h_cases[i].financial_exposure.total],
                      DOMAIN h_cases)
        /\ h_out[1].total_fix_cost =
              TotalOf([i \in DOMAIN h_cases |-> h_cases[i].rosi.fix_cost],
                      DOMAIN h_cases)
        /\ h_out[1].net_benefit =
              h_out[1].total_financial_exposure - h_out[1].total_fix_cost
        /\ TotalOf(h_out[1].severity_breakdown, DOMAIN h_out[1].severity_breakdown)
              = Len(h_cases)

\* three tickets, two of them of one severity, one with a breach penalty
C14_Witness ==
    /\ Called("calculate_summary_statistics")
    /\ Len(h_cases) = 3
    /\ Cardinality(DOMAIN h_out[1].severity_breakdown) = 2
    /\ \E i \in DOMAIN h_cases : h_cases[i].financial_exposure.breach_penalty > 0
    /\ h_out[1].net_benefit > 0

-----------------------------------------------------------------------------
(* services/session_manager.py.  Every public method runs under self.lock, *)
(* so each is one step; the cleanup thread takes the lock once to list the  *)
(* expired sessions and once more for each session it removes.  A session   *)
(* id stands for the uuid4 drawn for it (no two draws are equal) and for    *)
(* the directory base_dir/<id>; times are minutes on one clock.             *)

\* timeout_minutes of SessionManager.__init__
timeout_minutes == 60

\* how far the clock goes on in one step, how long it runs, and how many
\* sessions are created
TickMinutes == 30

MaxClock == 150

MaxSessions == 2

Users == {"uid-a", "uid-b"}

SessionIds == 1..MaxSessions

\* _cleanup_session: the session table, the directories and the returned value;
\* shutil.rmtree removes the whole directory
_cleanup_session(session_id) ==
    IF session_id \notin DOMAIN sessions
    THEN [sessions |-> sessions, dirs |-> dirs, result |-> FALSE]
    ELSE [sessions |-> [s \in DOMAIN sessions \ {session_id} |-> sessions[s]],
          dirs |-> dirs \ {session_id},
          result |-> TRUE]

\* a call has returned value
Returns(op, session_id, user_id, value) ==
    s_call' = [op |-> op, session_id |-> session_id, user_id |-> user_id, result |-> value]

\* create_session: the directories are made, then the venv; when the venv
\* cannot be made the directory is removed again and the error raised
create_session(user_id) ==
    /\ next_id <= MaxSessions
    /\ next_id' = next_id + 1
    /\ \E venv_made \in BOOLEAN :
          IF venv_made
          THEN /\ sessions' = (next_id :> [session_id |-> next_id,
                                           user_id |-> user_id,
                                           created_at |-> now,
                                           last_access |-> now,
                                           expires_at |-> now + timeout_minutes])
                              @@ sessions
               /\ dirs' = dirs \cup {next_id}
               /\ Returns("create_session", next_id, user_id, [ok |-> TRUE])
          ELSE /\ UNCHANGED <<sessions, dirs>>
               /\ Returns("create_session", next_id, user_id,
                          [ok |-> FALSE, error |-> "RuntimeError"])
    /\ UNCHANGED <<now, expired_sessions, pipeline_vars, harness_vars>>

\* faulty variant: the owner of the session is not compared with the caller
get_session_AnyUser(session_id, user_id) ==
    /\ IF session_id \notin DOMAIN sessions
       THEN /\ UNCHANGED <<sessions, dirs>>
            /\ Returns("get_session", session_id, user_id, [ok |-> FALSE])
       ELSE IF now > sessions[session_id].expires_at
       THEN /\ sessions' = _cleanup_session(session_id).sessions
            /\ dirs' = _cleanup_session(session_id).dirs
            /\ Returns("get_session", session_id, user_id, [ok |-> FALSE])
       ELSE /\ sessions' = [sessions EXCEPT ![session_id].last_access = now]
            /\ dirs' = dirs
            /\ Returns("get_session", session_id, user_id,
                       [ok |-> TRUE, session |-> sessions'[session_id]])
    /\ UNCHANGED <<now, next_id, expired_sessions, pipeline_vars, harness_vars>>

\* get_session: None (ok FALSE) or the session data
get_session(session_id, user_id) ==
    /\ IF session_id \notin DOMAIN sessions
       THEN /\ UNCHANGED <<sessions, dirs>>
            /\ Returns("get_session", session_id, user_id, [ok |-> FALSE])
       ELSE IF sessions[session_id].user_id # user_id
       THEN /\ UNCHANGED <<sessions, dirs>>
            /\ Returns("get_session", session_id, user_id, [ok |-> FALSE])
       ELSE IF now > sessions[session_id].expires_at
       THEN /\ sessions' = _cleanup_session(session_id).sessions
            /\ dirs' = _cleanup_session(session_id).dirs
            /\ Returns("get_session", session_id, user_id, [ok |-> FALSE])
       ELSE /\ sessions' = [sessions EXCEPT ![session_id].last_access = now]
            /\ dirs' = dirs
            /\ Returns("get_session", session_id, user_id,
                       [ok |-> TRUE, session |-> sessions'[session_id]])
    /\ UNCHANGED <<now, next_id, expired_sessions, pipeline_vars, harness_vars>>

update_heartbeat(session_id, user_id) ==
    /\ IF session_id \notin DOMAIN sessions \/ sessions[session_id].user_id # user_id
       THEN /\ UNCHANGED sessions
            /\ Returns("update_heartbeat", session_id, user_id, [ok |-> FALSE])
       ELSE /\ sessions' = [sessions EXCEPT ![session_id].last_access = now,
                                            ![session_id].expires_at = now + timeout_minutes]
            /\ Returns("update_heartbeat", session_id, user_id, [ok |-> TRUE])
    /\ UNCHANGED <<dirs, now, next_id, expired_sessions, pipeline_vars, harness_vars>>

\* faulty variant: the directory is removed and the table entry is kept
cleanup_session_KeepsEntry(session_id, user_id) ==
    /\ IF session_id \notin DOMAIN sessions \/ sessions[session_id].user_id # user_id
       THEN /\ UNCHANGED <<sessions, dirs>>
            /\ Returns("cleanup_session", session_id, user_id, [ok |-> FALSE])
       ELSE /\ sessions' = sessions
            /\ dirs' = _cleanup_session(session_id).dirs
            /\ Returns("cleanup_session", session_id, user_id,
                       [ok |-> _cleanup_session(session_id).result])
    /\ UNCHANGED <<now, next_id, expired_sessions, pipeline_vars, harness_vars>>

cleanup_session(session_id, user_id) ==
    /\ IF session_id \notin DOMAIN sessions \/ sessions[session_id].user_id # user_id
       THEN /\ UNCHANGED <<sessions, dirs>>
            /\ Returns("cleanup_session", session_id, user_id, [ok |-> FALSE])
       ELSE /\ sessions' = _cleanup_session(session_id).sessions
            /\ dirs' = _cleanup_session(session_id).dirs
            /\ Returns("cleanup_session", session_id, user_id,
                       [ok |-> _cleanup_session(session_id).result])
    /\ UNCHANGED <<now, next_id, expired_sessions, pipeline_vars, harness_vars>>

\* get_all_sessions: the listed sessions (the dict keeps them in the order of
\* their creation)
get_all_sessions(user_id) ==
    /\ Returns("get_all_sessions", 0, user_id,
               [ok |-> TRUE,
                listed |-> {[session_id |-> s,
                             created_at |-> sessions[s].created_at,
                             last_access |-> sessions[s].last_access,
                             expires_at |-> sessions[s].expires_at] :
                            s \in {x \in DOMAIN sessions : sessions[x].user_id = user_id}}])
    /\ UNCHANGED <<sessions, dirs, now, next_id, expired_sessions, pipeline_vars,
                   harness_vars>>

\* faulty variant: the listed sessions are taken off the list and stay registered
_background_cleanup_NeverRemoves ==
    /\ \/ /\ expired_sessions = {}
          /\ expired_sessions' = {s \in DOMAIN sessions : now > sessions[s].expires_at}
       \/ /\ expired_sessions # {}
          /\ expired_sessions' = expired_sessions \ {FirstOf(expired_sessions)}
    /\ UNCHANGED <<sessions, dirs, now, next_id, s_call, pipeline_vars, harness_vars>>

\* _background_cleanup: after a sleep the expired sessions are listed under
\* the lock; then, the lock taken anew for each, they are removed in the
\* order of the list
_background_cleanup ==
    /\ \/ /\ expired_sessions = {}
          /\ expired_sessions' = {s \in DOMAIN sessions : now > sessions[s].expires_at}
          /\ UNCHANGED <<sessions, dirs>>
       \/ /\ expired_sessions # {}
          /\ sessions' = _cleanup_session(FirstOf(expired_sessions)).sessions
          /\ dirs' = _cleanup_session(FirstOf(expired_sessions)).dirs
          /\ expired_sessions' = expired_sessions \ {FirstOf(expired_sessions)}
    /\ UNCHANGED <<now, next_id, s_call, pipeline_vars, harness_vars>>

\* time passes
Tick ==
    /\ now < MaxClock
    /\ now' = now + TickMinutes
    /\ UNCHANGED <<sessions, dirs, next_id, expired_sessions, s_call, pipeline_vars,
                   harness_vars>>

NextSessions ==
    \/ \E user_id \in Users : create_session(user_id)
    \/ \E session_id \in SessionIds, user_id \in Users : get_session(session_id, user_id)
    \/ \E session_id \in SessionIds, user_id \in Users : update_heartbeat(session_id, user_id)
    \/ \E session_id \in SessionIds, user_id \in Users : cleanup_session(session_id, user_id)
    \/ \E user_id \in Users : get_all_sessions(user_id)
    \/ _background_cleanup
    \/ Tick

InitSessions == PipelineOff /\ HarnessOff /\ SessionManagerInit

SpecSessions == InitSessions /\ [][NextSessions]_vars

\* session s is in the table and user_id is not its owner
NotOwner(s, user_id) == s \in DOMAIN sessions /\ sessions[s].user_id # user_id

\* the step leaves session s, its times and its directory as they are
Untouched(s) ==
    /\ s \in DOMAIN sessions'
    /\ sessions'[s] = sessions[s]
    /\ (s \in dirs) = (s \in dirs')

C15_Step ==
    \A s \in SessionIds, user_id \in Users :
        NotOwner(s, user_id) =>
            /\ get_session(s, user_id) => (~s_call'.result.ok /\ Untouched(s))
            /\ update_heartbeat(s, user_id) => (~s_call'.result.ok /\ Untouched(s))
            /\ cleanup_session(s, user_id) => (~s_call'.result.ok /\ Untouched(s))
            /\ get_all_sessions(user_id) =>
                  /\ \A listed \in s_call'.result.listed : listed.session_id # s
                  /\ Untouched(s)

\* C15: for a session s and a user who is not its owner, get_session returns
\* None, update_heartbeat and cleanup_session return False, get_all_sessions
\* does not list s, and none of these calls removes s or changes its
\* last_access or expires_at.
C15_OnlyTheOwnerReachesASession == [][C15_Step]_vars

\* another user has just asked for a session that is past its expiry and it
\* is still there
C15_Witness ==
    /\ s_call.op \in {"get_session", "cleanup_session"}
    /\ NotOwner(s_call.session_id, s_call.user_id)
    /\ now > sessions[s_call.session_id].expires_at
    /\ ~s_call.result.ok
    /\ s_call.session_id \in dirs

\* cleanup_session(s, owner) has just returned True
CleanedUp(s) ==
    s_call.op = "cleanup_session" /\ s_call.session_id = s /\ s_call.result.ok

\* session s and its directory do not exist, and the call that has just
\* returned neither found nor listed it
Gone(s) ==
    /\ s \notin DOMAIN sessions
    /\ s \notin dirs
    /\ (s_call.op \in {"get_session", "update_heartbeat"} /\ s_call.session_id = s)
          => ~s_call.result.ok
    /\ s_call.op = "get_all_sessions" =>
          \A listed \in s_call.result.listed : listed.session_id # s

\* a call on a session that is not in the table fails
C16_Step ==
    \A s \in SessionIds \ DOMAIN sessions, user_id \in Users :
        (get_session(s, user_id) \/ update_heartbeat(s, user_id) \/ cleanup_session(s, user_id))
            => ~s_call'.result.ok

MatchingRules(R, file_path) ==
    {i \in 1..Len(FlatRules(R)) : Contains(Lower(FlatRules(R)[i].rule_path), file_path)}

\* Tier 1 is switched on and the finding's file is a text
Tier1Applies(c) ==
    /\ RulesIsDict(c.rules)
    /\ HardRulesEnabled(c.rules)
    /\ Get(c.vulnerability, "file", <<>>) # Null

\* out is the Tier 1 match by rule: the record its asset id resolves to,
\* confidence 100, tier hard_rules
HitBy(out, rule, inventory) ==
    /\ out.status = "hit"
    /\ out.metadata.tier = "hard_rules"
    /\ out.metadata.confidence = 100
    /\ out.metadata.rule_used = rule.rule_path
    /\ out.metadata.asset_id = rule.asset_id
    /\ _find_asset_by_id(rule.asset_id, inventory).found
    /\ out.asset = _find_asset_by_id(rule.asset_id, inventory).asset

\* C17 as stated: Tier 1 decides on the first rule, in table order, whose
\* substring occurs case-insensitively in the file path: it resolves that
\* rule's asset id and returns with confidence 100 and tier hard_rules without
\* consulting later rules; with no such rule or an empty path it returns no
\* result.
C17_FirstMatchingRuleDecides ==
    (Called("map_with_hard_rules") /\ Tier1Applies(h_cases)) =>
        IF MatchingRules(h_cases.rules, FilePath(h_cases.vulnerability)) = {}
           \/ FilePath(h_cases.vulnerability) = <<>>
        THEN h_out[1].status = "none"
        ELSE \/ HitBy(h_out[1],
                      FlatRules(h_cases.rules)[
                          FirstOf(MatchingRules(h_cases.rules, FilePath(h_cases.vulnerability)))],
                      h_cases.assets)
             \/ /\ h_out[1].status = "none"
                /\ ~_find_asset_by_id(
                       FlatRules(h_cases.rules)[
                           FirstOf(MatchingRules(h_cases.rules,
                                                 FilePath(h_cases.vulnerability)))].asset_id,
                       h_cases.assets).found

\* C17 amended: with Tier 1 switched on and a textual file path, Tier 1
\* returns the match of the first rule, in table order, whose substring occurs
\* case-insensitively in the path and whose asset id resolves to an inventory
\* record, with confidence 100 and tier hard_rules; matching rules whose asset
\* id does not resolve are passed over; with no such rule or an empty path it
\* returns no result.  With Tier 1 switched off it returns no result; a rule
\* set that is no object, or a file that is None, raises.
C17_FirstResolvableRuleDecides ==
    Called("map_with_hard_rules") =>
        /\ ~RulesIsDict(h_cases.rules) => h_out[1].status = "raise"
        /\ (RulesIsDict(h_cases.rules) /\ ~HardRulesEnabled(h_cases.rules)) =>
              h_out[1].status = "none"
        /\ (/\ RulesIsDict(h_cases.rules)
            /\ HardRulesEnabled(h_cases.rules)
            /\ Get(h_cases.vulnerability, "file", <<>>) = Null) => h_out[1].status = "raise"
        /\ Tier1Applies(h_cases) =>
              IF FilePath(h_cases.vulnerability) = <<>>
                 \/ FirstPathRule(h_cases.rules, FilePath(h_cases.vulnerability),
                                  h_cases.assets) = 0
              THEN h_out[1].status = "none"
              ELSE HitBy(h_out[1],
                         FlatRules(h_cases.rules)[
                             FirstPathRule(h_cases.rules, FilePath(h_cases.vulnerability),
                                           h_cases.assets)],
                         h_cases.assets)

\* a match by a later rule after a matching rule whose asset id did not resolve
C17_Witness ==
    /\ Called("map_with_hard_rules")
    /\ Tier1Applies(h_cases)
    /\ h_out[1].status = "hit"
    /\ FirstOf(MatchingRules(h_cases.rules, FilePath(h_cases.vulnerability)))
          < FirstPathRule(h_cases.rules, FilePath(h_cases.vulnerability), h_cases.assets)

\* the number of keywords of entry e that occur in the lower-cased text of v
Score(e, v) ==
    IF e.is_list
    THEN Cardinality({k \in 1..Len(e.keywords) : Contains(Lower(e.keywords[k]), VulnText(v))})
    ELSE 0

\* the winner among the configured entries: the first of those with the
\* highest score (0: no entry scores above zero)
Winner(R, v) ==
    FirstOf({i \in 1..Len(KeywordMappings(R)) :
               /\ Score(KeywordMappings(R)[i], v) > 0
               /\ \A j \in 1..Len(KeywordMappings(R)) :
                     Score(KeywordMappings(R)[j], v) <= Score(KeywordMappings(R)[i], v)})

\* Tier 2 is switched on and the finding has some text
Tier2Applies(c) ==
    /\ RulesIsDict(c.rules)
    /\ KeywordMatchingEnabled(c.rules)
    /\ Strip(VulnText(c.vulnerability)) # <<>>

\* out is the Tier 2 match of entry e with the given score
KeywordHitBy(out, e, score, inventory) ==
    /\ out.status = "hit"
    /\ out.metadata.tier = "keywords"
    /\ out.metadata.asset_id = e.asset_id
    /\ out.metadata.keywords_matched = score
    /\ out.metadata.confidence = (IF 60 + 10 * score < 90 THEN 60 + 10 * score ELSE 90)
    /\ out.asset = _find_asset_by_id(e.asset_id, inventory).asset

\* C18: Tier 2 scores each configured asset id by the number of its keywords
\* occurring in the lower-cased concatenation of file, package, message and
\* description; the asset id with the highest nonzero score wins, the first in
\* configuration order among equal top scores; the confidence is
\* min(60 + 10*score, 90); when no asset scores above zero or the winner's
\* asset id cannot be resolved the result is "no result", a lower-scoring
\* resolvable asset not being tried.
C18_BestKeywordScoreWins ==
    (Called("map_with_keywords") /\ Tier2Applies(h_cases)) =>
        IF Winner(h_cases.rules, h_cases.vulnerability) = 0
        THEN h_out[1].status = "none"
        ELSE IF ~_find_asset_by_id(
                    KeywordMappings(h_cases.rules)[
                        Winner(h_cases.rules, h_cases.vulnerability)].asset_id,
                    h_cases.assets).found
        THEN h_out[1].status = "none"
        ELSE KeywordHitBy(h_out[1],
                 KeywordMappings(h_cases.rules)[Winner(h_cases.rules, h_cases.vulnerability)],
                 Score(KeywordMappings(h_cases.rules)[Winner(h_cases.rules, h_cases.vulnerability)],
                       h_cases.vulnerability),
                 h_cases.assets)

\* some entry other than the winner scores above zero and resolves
OtherResolves(c, winner) ==
    \E j \in 1..Len(KeywordMappings(c.rules)) :
        /\ j # winner
        /\ Score(KeywordMappings(c.rules)[j], c.vulnerability) > 0
        /\ _find_asset_by_id(KeywordMappings(c.rules)[j].asset_id, c.assets).found

\* the winner of a tie does not resolve while a later entry would: no result
C18_Witness ==
    /\ Called("map_with_keywords")
    /\ Tier2Applies(h_cases)
    /\ Winner(h_cases.rules, h_cases.vulnerability) # 0
    /\ h_out[1].status = "none"
    /\ OtherResolves(h_cases, Winner(h_cases.rules, h_cases.vulnerability))

\* a winner with four keywords in the text: the confidence is capped
C18_Capped ==
    /\ Called("map_with_keywords")
    /\ h_out[1].status = "hit"
    /\ h_out[1].metadata.keywords_matched = 4
    /\ h_out[1].metadata.confidence = 90

\* a data row of a sheet of the document holds the target in the sheet's
\* asset-id column (blanks around the cell and the case of letters set aside)
RowMatches(asset_data, target) ==
    \E s \in 1..Len(Sheets(asset_data)) :
        /\ Len(Get(Sheets(asset_data)[s], "rows", <<>>)) >= 2
        /\ ColIdx(Sheets(asset_data)[s].rows[1], "id") # 0
        /\ \E k \in 2..Len(Sheets(asset_data)[s].rows) :
              /\ Len(Sheets(asset_data)[s].rows[k])
                    >= ColIdx(Sheets(asset_data)[s].rows[1], "id")
              /\ Lower(Strip(Str(Sheets(asset_data)[s].rows[k][
                     ColIdx(Sheets(asset_data)[s].rows[1], "id")]))) = Lower(target)

\* the dict has an id-like key whose value is the target
HasIdKey(d, target) ==
    \E key \in IdKeys \cap DOMAIN d : Lower(Str(d[key])) = Lower(target)

\* the document matches the target: by a data row, or as a dict-shaped or
\* list-shaped (its first record) document with an id-like key
DataMatches(asset_data, target) ==
    \/ RowMatches(asset_data, target)
    \/ asset_data.type = "dict" /\ HasIdKey(asset_data.d, target)
    \/ /\ asset_data.type = "list"
       /\ Len(asset_data.items) > 0
       /\ asset_data.items[1].type = "dict"
       /\ HasIdKey(asset_data.items[1].d, target)

MatchingDocs(inventory, target) ==
    {i \in 1..Len(inventory) : DataMatches(inventory[i].data, target)}

FoundIffMatched(out, inventory, target) ==
    /\ out.found <=> MatchingDocs(inventory, target) # {}
    /\ out.found => out.asset._id = inventory[FirstOf(MatchingDocs(inventory, target))]._id

\* C19: _find_asset_by_id returns a record if and only if some asset document
\* matches the target id, by a data row of one of its sheets whose asset-id
\* column equals the target case-insensitively or, through the fallback, as a
\* dict-shaped or list-shaped document with an id-like key equal to the
\* target; the record returned is of the first matching document in scan
\* order.
C19_FoundIffSomeDocumentMatches ==
    Called("_find_asset_by_id") => FoundIffMatched(h_out[1], h_cases.assets, h_cases.asset_id)

\* C19 holds for every target id that is not the empty text
C19_HoldsForNonEmptyIds ==
    (Called("_find_asset_by_id") /\ h_cases.asset_id # <<>>) =>
        FoundIffMatched(h_out[1], h_cases.assets, h_cases.asset_id)

\* a target found in the second document through the dict fallback, after a
\* workbook whose sheets were skipped
C19_MatchAfterSkippedSheets ==
    /\ Called("_find_asset_by_id")
    /\ h_cases.asset_id # <<>>
    /\ h_out[1].found
    /\ Len(h_cases.assets) = 2
    /\ Sheets(h_cases.assets[1].data) # <<>>
    /\ h_out[1].ref = 2

\* the reply text holds one JSON object with matched = true and an
\* asset_index within a list of n assets
GoodReply(r, n) ==
    /\ r.kind = "text"
    /\ r.open # -1
    /\ r.close >= r.open
    /\ r.json.ok
    /\ Get(r.json.obj, "matched", FALSE)
    /\ "asset_index" \in DOMAIN r.json.obj
    /\ r.json.obj.asset_index.int
    /\ r.json.obj.asset_index.val >= 0
    /\ r.json.obj.asset_index.val < n

\* the vulnerability is enriched with the asset the reply points to, tier ai,
\* and the reply's confidence, reasoning and business_impact
EnrichedByAi(enriched, r, inventory) ==
    /\ enriched.matched_asset.present
    /\ enriched.matched_asset.tier = "ai"
    /\ enriched.matched_asset.id = inventory[r.json.obj.asset_index.val + 1]._id
    /\ enriched.matched_asset.confidence = Get(r.json.obj, "confidence", 0)
    /\ enriched.matched_asset.reasoning = Get(r.json.obj, "reasoning", "")
    /\ enriched.matched_asset.business_impact = Get(r.json.obj, "business_impact", "")

\* Tier 1 and Tier 2 have returned no result, the AI fallback is on and there
\* are assets
AiTierDue ==
    /\ pc = "t3_cfg"
    /\ RulesIsDict(rules)
    /\ AiFallbackEnabled(rules)
    /\ assets # <<>>

C20_Step ==
    \A reply \in AiReplies :
        (/\ AiTierDue
         /\ GoodReply(reply, Len(assets))
         /\ Tier3With(perform_ai_check(reply)))
        => EnrichedByAi(enriched_vulnerabilities'[idx], reply, assets)

\* C20: when Tier 1 and Tier 2 return no result, the AI fallback is on, the
\* asset list is not empty and the AI capability answers the call with a text
\* holding one JSON object with matched = true and 0 <= asset_index < number
\* of assets, the vulnerability is enriched with the asset at that index, tier
\* ai, and the reply's confidence, reasoning and business_impact.
C20_GoodAiReplyIsUsed == [][C20_Step]_vars

C20_StepWhenCallBinds ==
    \A reply \in AiReplies :
        (AiTierDue /\ GoodReply(reply, Len(assets)) /\ Tier3With(reply))
        => EnrichedByAi(enriched_vulnerabilities'[idx], reply, assets)

\* the same for a call whose arguments bind to the capability's parameters
\* (SpecAI)
C20_GoodAiReplyIsUsedWhenCallBinds == [][C20_StepWhenCallBinds]_vars

\* a vulnerability matched by the AI tier (SpecAI)
C20_AiMatch ==
    /\ Returned
    /\ GoodReply(ai_response, Len(assets))
    /\ LastEnriched.matched_asset.present
    /\ LastEnriched.matched_asset.tier = "ai"
    /\ LastEnriched.matched_asset.confidence = 85

\* map_all_vulnerabilities has fetched the asset list (line 328)
Fetched == calls.store > 0

\* C21: matching is read-only on shared data: while and after
\* map_all_vulnerabilities processes the vulnerabilities, through any tier,
\* every document of the fetched asset list is as the store delivered it and
\* the rule set is as it was loaded; the mapping_* keys are written to a
\* per-vulnerability copy only.
C21_MatchingIsReadOnly ==
    Fetched =>
        /\ assets = store
        /\ rules = _load_rules(rule_file)

\* what holds: the list keeps its documents and each document keeps the keys
\* and values the store delivered; a document can only gain mapping_* keys
C21_OnlyMappingKeysAreAdded ==
    Fetched =>
        /\ Len(assets) = Len(store)
        /\ \A i \in 1..Len(store) :
              /\ [k \in DOMAIN store[i] |-> assets[i][k]] = store[i]
              /\ DOMAIN assets[i] \ DOMAIN store[i]
                    \subseteq {"mapping_confidence", "mapping_reasoning", "mapping_tier"}

\* a vulnerability was matched through the dict- or list-shaped fallback and
\* the fetched document now carries the mapping keys
C21_DocumentWritten ==
    /\ Fetched
    /\ \E i \in 1..Len(assets) :
          /\ "mapping_tier" \in DOMAIN assets[i]
          /\ "mapping_tier" \notin DOMAIN store[i]

\* the confidence the claim allows for a tier
ConfidenceOfTier(tier) ==
    CASE tier = "hard_rules" -> {100}
      [] tier = "keywords" -> {70, 80, 90}
      [] tier = "ai" -> 0..100
      [] OTHER -> {}

ConfidenceInRange(matched_asset) ==
    IF matched_asset.present
    THEN matched_asset.confidence \in ConfidenceOfTier(matched_asset.tier)
    ELSE TRUE

TicketConfidenceInRange(ticket) ==
    IF ticket.matched_asset_details.present
    THEN /\ ticket.asset_confidence = ticket.matched_asset_details.confidence
         /\ ticket.asset_confidence \in ConfidenceOfTier(ticket.matched_asset_details.tier)
    ELSE ticket.asset_confidence = 0

C22_RuleTiersArePercentages ==
    /\ \A i \in 1..Len(enriched_vulnerabilities) :
          \/ ConfidenceInRange(enriched_vulnerabilities[i].matched_asset)
          \/ enriched_vulnerabilities[i].matched_asset.tier = "ai"
    /\ \A i \in 1..Len(risk_tickets) :
          \/ TicketConfidenceInRange(risk_tickets[i])
          \/ /\ risk_tickets[i].matched_asset_details.tier = "ai"
             /\ risk_tickets[i].asset_confidence
                   = risk_tickets[i].matched_asset_details.confidence

\* a ticket of each kind has been generated: both rule tiers, the AI tier and
\* an unmapped vulnerability
C22_TicketOfTier ==
    /\ pc = "done"
    /\ \E i, j \in 1..Len(risk_tickets) :
          /\ risk_tickets[i].matched_asset_details.present
          /\ risk_tickets[i].matched_asset_details.tier = "keywords"
          /\ ~risk_tickets[j].matched_asset_details.present

\* the default the enrichment falls back to for a field
DefaultOr(field, default) == IF field.given THEN field.val ELSE default

\* C23: enrich_vulnerability_with_asset resolves the financial context per
\* field: for an unmatched vulnerability matched_asset is null and the context
\* is the defaults (hourly_cost 10000, rto_hours 24, has_pii_data false,
\* asset_criticality low); for a matched one hourly_cost and rto_hours are
\* each taken from the asset row when that cell was present and parsed, and
\* from the default otherwise, so that an unparsable cost or RTO cell loses
\* neither the match nor the other field.
C23_ContextResolvedPerField ==
    Called("enrich_vulnerability_with_asset") =>
        /\ \A k \in DOMAIN h_cases.vulnerability : h_out[1][k] = h_cases.vulnerability[k]
        /\ IF h_cases.matched.asset_id \in {NoAsset, <<"A","P","P","-","0","0","9">>}
           THEN /\ ~h_out[1].matched_asset.present
                /\ h_out[1].financial_context =
                      [hourly_cost |-> 10000, rto_hours |-> 24, has_pii_data |-> FALSE,
                       asset_criticality |-> <<"l","o","w">>]
           ELSE /\ h_out[1].matched_asset.present
                /\ h_out[1].matched_asset.confidence = 100
                /\ h_out[1].financial_context =
                      [hourly_cost |-> DefaultOr(h_cases.matched.cost, 10000),
                       rto_hours |-> DefaultOr(h_cases.matched.rto, 24),
                       has_pii_data |-> h_cases.has_pii_data,
                       asset_criticality |-> <<"m","e","d","i","u","m">>]

\* a row whose cost cell does not parse while its RTO cell does: the match is
\* kept, the cost is the default and the RTO is the row's
C23_Witness ==
    /\ Called("enrich_vulnerability_with_asset")
    /\ ~h_cases.matched.cost.given
    /\ h_cases.matched.rto.given
    /\ h_out[1].matched_asset.present
    /\ h_out[1].matched_asset.asset_name = <<"A","r","c","h","i","v","e">>
    /\ h_out[1].financial_context.hourly_cost = 10000
    /\ h_out[1].financial_context.rto_hours = 8

\* the base RTO the claim gives for a severity weight, hours
BaseRtoOfWeight(weight) ==
    CASE weight = 10 -> 24
      [] weight = 7 -> 72
      [] weight = 4 -> 168
      [] OTHER -> 720

\* C24: for every severity text and asset criticality,
\* estimate_rto_from_severity returns base * multiplier with base 24 for
\* weight 10, 72 for weight 7, 168 for weight 4 and 720 for every lower weight,
\* and multiplier 0.5 / 0.75 / 1.0 / 1.5 for criticality critical / high /
\* medium / low (case-insensitive) and 1.0 for any other criticality; the
\* multiplier is given in quarters with each criticality drawn.
C24_RtoIsBaseTimesMultiplier ==
    Called("estimate_rto_from_severity") =>
        4 * h_out[1] = BaseRtoOfWeight(get_severity_weight(h_cases.severity))
                           * h_cases.criticality.quarters

\* a severity of weight 7 on an asset of criticality 'HIGH': 72 * 0.75 = 54
C24_Witness ==
    /\ Called("estimate_rto_from_severity")
    /\ get_severity_weight(h_cases.severity) = 7
    /\ h_cases.criticality.text = <<"H","I","G","H">>
    /\ h_out[1] = 54

\* the findings of tool t's result, each with the tool that reported it
ReportedBy(t) ==
    IF CountFindings(scan_results[t].result) = 0 THEN <<>>
    ELSE [k \in 1..Len(scan_results[t].result.essential.items) |->
             [tool |-> scan_results[t].tool,
              finding |-> scan_results[t].result.essential.items[k]]]

\* all findings of the scan, in the order of the tools
Reported == ReportedBy(1) \o ReportedBy(2)

\* the ticket carries the finding's own file, line and package
TicketOf(ticket, finding) ==
    /\ ticket.technical_details.file = Get(finding, "file", <<"N","/","A">>)
    /\ ticket.technical_details.line = Get(finding, "line", <<"N","/","A">>)
    /\ ticket.technical_details.package = Get(finding, "package", <<"N","/","A">>)
    /\ ticket.severity = Get(finding, "severity", W_UNKNOWN)

\* the enriched record is the finding with the tag of its tool
EnrichedOf(enriched, reported) ==
    /\ enriched.source_tool = reported.tool
    /\ \A k \in DOMAIN reported.finding : enriched[k] = reported.finding[k]

\* C25: whenever process_scan_results returns, the number of risk tickets =
\* vulnerabilities_processed = summary.total_vulnerabilities = the number of
\* findings in the tools' list-valued 'essential' entries, each finding has
\* exactly one ticket with its own file, line and package and exactly one
\* enriched record with its source_tool tag, and
\* 0 <= assets_mapped <= vulnerabilities_processed.
C25_CountsAgree ==
    pc = "done" =>
        /\ Len(result.risk_tickets) = Len(Reported)
        /\ result.vulnerabilities_processed = Len(Reported)
        /\ result.summary.total_vulnerabilities = Len(Reported)
        /\ 0 <= result.assets_mapped
        /\ result.assets_mapped <= result.vulnerabilities_processed
        /\ \E perm \in IndexPermutations(Len(Reported)) :
              \A i \in 1..Len(Reported) :
                  TicketOf(result.risk_tickets[perm[i]], Reported[i].finding)
        /\ Reported # <<>> =>
              /\ Len(result.enriched_vulnerabilities) = Len(Reported)
              /\ \E perm \in IndexPermutations(Len(Reported)) :
                    \A i \in 1..Len(Reported) :
                        EnrichedOf(result.enriched_vulnerabilities[perm[i]], Reported[i])

\* a scan of two tools with one finding each has returned: the later tool's
\* finding, the more severe one, has the first ticket, and one of the two
\* was mapped
C25_Witness ==
    /\ pc = "done"
    /\ Len(ReportedBy(1)) = 1
    /\ Len(ReportedBy(2)) = 1
    /\ TicketOf(result.risk_tickets[1], Reported[2].finding)
    /\ ~TicketOf(result.risk_tickets[1], Reported[1].finding)
    /\ result.assets_mapped = 1

\* the number of tickets of the list with the severity weight
TicketsOfWeight(tickets, weight) ==
    Cardinality({i \in 1..Len(tickets) : tickets[i].severity_weight = weight})

\* the number of tickets whose severity text, upper-cased, is the word
TicketsOfText(tickets, word) ==
    Cardinality({i \in 1..Len(tickets) : Upper(tickets[i].severity) = word})

\* C26: in the summary of any non-empty ticket list critical_count,
\* high_count, medium_count and low_count are the numbers of tickets whose
\* severity_weight is 10, 7, 4 and 2, for every severity text the severity
\* model accepts.
C26_CountsFollowWeights ==
    (Called("calculate_summary_statistics") /\ h_cases # <<>>) =>
        /\ h_out[1].critical_count = TicketsOfWeight(h_cases, 10)
        /\ h_out[1].high_count = TicketsOfWeight(h_cases, 7)
        /\ h_out[1].medium_count = TicketsOfWeight(h_cases, 4)
        /\ h_out[1].low_count = TicketsOfWeight(h_cases, 2)

\* what holds: the four counts are the numbers of tickets whose severity text
\* is, whatever its case, exactly CRITICAL, HIGH, MEDIUM or LOW
C26_CountsFollowExactText ==
    (Called("calculate_summary_statistics") /\ h_cases # <<>>) =>
        /\ h_out[1].critical_count = TicketsOfText(h_cases, W_CRITICAL)
        /\ h_out[1].high_count = TicketsOfText(h_cases, W_HIGH)
        /\ h_out[1].medium_count = TicketsOfText(h_cases, W_MEDIUM)
        /\ h_out[1].low_count = TicketsOfText(h_cases, W_LOW)

\* a list with a 'Critical Issue' ticket of weight 10 that no count holds
C26_UncountedTicket ==
    /\ Called("calculate_summary_statistics")
    /\ Len(h_cases) = 1
    /\ h_cases[1].severity_weight = 10
    /\ h_out[1].critical_count = 0
    /\ h_out[1].total_vulnerabilities = 1

\* process_scan_results has returned result to perform_security_check
ResultReturned == pc \in {"done", "reported"}

\* C27: every result returned by process_scan_results, the empty-scan result
\* included, carries a summary with the same fields (total_vulnerabilities,
\* total_financial_exposure, total_fix_cost, net_benefit, average_rosi and the
\* four severity counts), and generate_financial_report_markdown applied to
\* it completes without error.
C27_EveryResultCanBeReported ==
    ResultReturned =>
        /\ \A i \in 1..Len(ReportSummaryKeys) : ReportSummaryKeys[i] \in DOMAIN result.summary
        /\ pc = "reported" => exc = NoException

\* what holds: a result with tickets has the nine fields and its report is
\* generated
C27_ResultsWithTicketsCanBeReported ==
    (ResultReturned /\ result.risk_tickets # <<>>) =>
        /\ \A i \in 1..Len(ReportSummaryKeys) : ReportSummaryKeys[i] \in DOMAIN result.summary
        /\ pc = "reported" => exc = NoException

\* the report of a clean scan has raised KeyError on the summary's net_benefit
C27_CleanScanReportFails ==
    /\ pc = "reported"
    /\ result = CleanScanResult
    /\ exc.stage = "report"
    /\ exc.error = "KeyError"
    /\ exc.key = "net_benefit"

\* the report of a result with two tickets has been generated
C27_ReportGenerated ==
    /\ pc = "reported"
    /\ Len(result.risk_tickets) = 2
    /\ exc = NoException

\* the step is one of the cleanup thread and takes session s off the table
RemovedByCleanupThread(s) ==
    /\ _background_cleanup
    /\ s \in DOMAIN sessions
    /\ s \notin DOMAIN sessions'

C28_Step ==
    \A s \in SessionIds : RemovedByCleanupThread(s) => now > sessions[s].expires_at

\* C28: the background cleanup removes a session only if the session is
\* expired at the moment it is removed: under any interleaving with
\* update_heartbeat, a session whose heartbeat returned True is not removed by
\* a cleanup pass that listed it as expired before the heartbeat.
C28_CleanupRemovesOnlyExpired == [][C28_Step]_vars

C28_StepListed ==
    \A s \in SessionIds : RemovedByCleanupThread(s) => s = FirstOf(expired_sessions)

\* what holds: the cleanup thread removes only sessions it listed as expired,
\* in the order of its list
C28_CleanupRemovesOnlyListed == [][C28_StepListed]_vars

\* the owner's heartbeat has returned True for a session that the cleanup
\* thread holds in its list of expired sessions
C28_HeartbeatOnListedSession ==
    /\ s_call.op = "update_heartbeat"
    /\ s_call.result.ok
    /\ s_call.session_id \in expired_sessions
    /\ s_call.session_id \in DOMAIN sessions
    /\ sessions[s_call.session_id].expires_at > now

\* the call is about a registered session of the caller whose expiry has passed
ExpiredForCaller(session_id, user_id) ==
    /\ session_id \in DOMAIN sessions
    /\ sessions[session_id].user_id = user_id
    /\ now > sessions[session_id].expires_at

C29_Step ==
    \A session_id \in SessionIds, user_id \in Users :
        ExpiredForCaller(session_id, user_id) =>
            /\ get_session(session_id, user_id) =>
                   /\ ~s_call'.result.ok
                   /\ session_id \notin DOMAIN sessions'
            /\ update_heartbeat(session_id, user_id) =>
                   /\ ~s_call'.result.ok
                   /\ session_id \in DOMAIN sessions' =>
                          sessions'[session_id].expires_at = sessions[session_id].expires_at

\* C29: once a session's expires_at has passed, no operation serves it or
\* revives it: get_session returns None for it and removes it, and
\* update_heartbeat returns False for it without extending its expiry.
C29_ExpiredIsNeverServedOrRevived == [][C29_Step]_vars

C29_StepGet ==
    \A session_id \in SessionIds, user_id \in Users :
        (ExpiredForCaller(session_id, user_id) /\ get_session(session_id, user_id)) =>
            /\ ~s_call'.result.ok
            /\ session_id \notin DOMAIN sessions'
            /\ session_id \notin dirs'

\* what holds: get_session answers None for an expired session and removes it
\* with its directory
C29_GetSessionRefusesExpired == [][C29_StepGet]_vars

\* an expired session has been given a new expiry by its owner's heartbeat
C29_ExpiredSessionRevived ==
    /\ s_call.op = "update_heartbeat"
    /\ s_call.result.ok
    /\ s_call.session_id \in DOMAIN sessions
    /\ sessions[s_call.session_id].created_at + timeout_minutes < sessions[s_call.session_id].last_access
    /\ sessions[s_call.session_id].expires_at > now

\* session s is registered and its expiry has passed
Expired(s) == s \in DOMAIN sessions /\ now > sessions[s].expires_at

\* session s is gone from the table and from the disk
Removed(s) == s \notin DOMAIN sessions /\ s \notin dirs

\* session s is registered with an expiry that has not passed (after a heartbeat)
Alive(s) == s \in DOMAIN sessions /\ now <= sessions[s].expires_at

\* the cleanup thread is a daemon that loops for ever and survives the
\* exceptions of a pass: each of its steps that stays possible is taken
SpecSessionsFair == InitSessions /\ [][NextSessions]_vars /\ WF_vars(_background_cleanup)

=============================================================================
